---- MODULE Spec2Model ----
(***************************************************************************)
(* Model of the buildersync agent runtime: the tag scanner and prompt      *)
(* parser (core/src/xml.ts, core/src/prompt.ts, core/src/generate.ts), the *)
(* state composer and action dispatcher (ElizaRuntime) and the             *)
(* orchestration loop (runtime/src/client.ts, handleRoomMessage).          *)
(*                                                                         *)
(* Text is a sequence of one-character strings.  JavaScript indices are    *)
(* 0-based and -1 means "not found"; here indices are 1-based and 0 means  *)
(* "not found".                                                            *)
(***************************************************************************)
EXTENDS Integers, Sequences, FiniteSets, TLC

(***************************************************************************)
(* Strings                                                                 *)
(***************************************************************************)

\* String.prototype.slice(from, to) with 1-based inclusive bounds.
Slice(s, from, to) == SubSeq(s, from, to)

\* The characters String.prototype.trim removes (of the model's alphabet).
Whitespace == {" "}

RECURSIVE TrimStart(_)
TrimStart(s) ==
  IF s # <<>> /\ Head(s) \in Whitespace THEN TrimStart(Tail(s)) ELSE s

RECURSIVE TrimEnd(_)
TrimEnd(s) ==
  IF s # <<>> /\ s[Len(s)] \in Whitespace
    THEN TrimEnd(SubSeq(s, 1, Len(s) - 1))
    ELSE s

\* String.prototype.trim
Trim(s) == TrimEnd(TrimStart(s))

\* s.indexOf(c, from) for a one-character c: the first position >= from
\* holding c, 0 when there is none.
IndexOf(s, c, from) ==
  LET hits == {i \in from..Len(s) : s[i] = c}
  IN  IF hits = {} THEN 0 ELSE CHOOSE i \in hits : \A j \in hits : i <= j

\* TRUE iff pat occurs in s at position i.
OccursAt(s, pat, i) ==
  /\ i >= 1
  /\ i + Len(pat) - 1 <= Len(s)
  /\ SubSeq(s, i, i + Len(pat) - 1) = pat

\* A faulty variant of LastIndexOf: where pat does not occur the end of the
\* text is returned, as if the element were closed there.
LastIndexOfOrEnd(s, pat) ==
  LET hits == {i \in 1..Len(s) : OccursAt(s, pat, i)}
  IN  IF hits = {} THEN Len(s) + 1 ELSE CHOOSE i \in hits : \A j \in hits : j <= i

\* s.lastIndexOf(pat): the last position where pat occurs, 0 when none.
LastIndexOf(s, pat) ==
  LET hits == {i \in 1..Len(s) : OccursAt(s, pat, i)}
  IN  IF hits = {} THEN 0 ELSE CHOOSE i \in hits : \A j \in hits : j <= i

(***************************************************************************)
(* XMLParser (core/src/xml.ts)                                             *)
(***************************************************************************)

\* The characters the regular-expression class \w matches.
WordChars ==
  {"a","b","c","d","e","f","g","h","i","j","k","l","m","n","o","p","q","r",
   "s","t","u","v","w","x","y","z","I","_","0","1","2","3","4","5","6","7",
   "8","9"}

\* The value of reading a property that an object does not have.
Undefined == <<"undefined">>

\* attrs[name] = value
SetAttr(attrs, name, value) ==
  [k \in (DOMAIN attrs) \cup {name} |-> IF k = name THEN value ELSE attrs[k]]

\* obj[key], Undefined when the key is absent.
Get(obj, key) == IF key \in DOMAIN obj THEN obj[key] ELSE Undefined

\* The end (exclusive) of the maximal run of \w characters starting at i.
RECURSIVE WordEnd(_, _)
WordEnd(text, i) ==
  IF i <= Len(text) /\ text[i] \in WordChars THEN WordEnd(text, i + 1) ELSE i

\* text.matchAll(/(\w+)="([^"]*)"/g), folded into the attribute object:
\* the scan tries every start position from the left and, after a match,
\* resumes right behind it.
RECURSIVE AttrScan(_, _, _)
AttrScan(text, i, attrs) ==
  IF i > Len(text) THEN attrs
  ELSE
    LET j == WordEnd(text, i)
        k == IF j > i /\ j + 1 <= Len(text) /\ text[j] = "=" /\ text[j + 1] = "\""
               THEN IndexOf(text, "\"", j + 2)
               ELSE 0
    IN  IF k # 0
          THEN AttrScan(text, k + 1,
                        SetAttr(attrs, Slice(text, i, j - 1), Slice(text, j + 2, k - 1)))
          ELSE AttrScan(text, i + 1, attrs)

parseAttributes(text) == AttrScan(text, 1, <<>>)

TextNode(content) == [type |-> "text", content |-> content]

ElementNode(name, attributes, content, closed) ==
  [type |-> "element", name |-> name, attributes |-> attributes,
   content |-> content, closed |-> closed]

\* One iteration of the while loop of XMLParser.parse on a non-empty
\* workingText, the text still to scan: the nodes handed to the visitor so
\* far, the text left, and stop where the iteration ends in a break.
ParseStep(workingText, nodes) ==
  LET tagStart == IndexOf(workingText, "<", 1) IN
  IF tagStart = 0
    THEN [stop |-> TRUE, workingText |-> workingText,
          nodes |-> Append(nodes, TextNode(Trim(workingText)))]
    ELSE
      LET nodes1 ==
            IF tagStart > 1
              THEN Append(nodes, TextNode(Trim(Slice(workingText, 1, tagStart - 1))))
              ELSE nodes
          tagEnd == IndexOf(workingText, ">", tagStart)
      IN
      IF tagEnd = 0
        THEN [stop |-> TRUE, workingText |-> workingText, nodes |-> nodes1]
        ELSE
          LET tagContent == Slice(workingText, tagStart + 1, tagEnd - 1)
              sp         == IndexOf(tagContent, " ", 1)
              name       == IF sp = 0 THEN tagContent
                                      ELSE Slice(tagContent, 1, sp - 1)
              attrText   == IF sp = 0 THEN <<>>
                                      ELSE Slice(tagContent, sp + 1, Len(tagContent))
              attributes == parseAttributes(attrText)
          IN
          IF workingText[tagEnd - 1] = "/"
            THEN [stop |-> FALSE,
                  workingText |-> Trim(Slice(workingText, tagEnd + 1, Len(workingText))),
                  nodes |-> Append(nodes1, ElementNode(name, attributes, <<>>, TRUE))]
            ELSE
              LET closeTag == <<"<", "/">> \o name \o <<">">>
                  closePos == LastIndexOf(workingText, closeTag)
              IN
              IF closePos = 0
                THEN [stop |-> TRUE, workingText |-> workingText, nodes |-> nodes1]
                ELSE
                  LET content == Trim(Slice(workingText, tagEnd + 1, closePos - 1))
                  IN  [stop |-> FALSE,
                       workingText |->
                         Trim(Slice(workingText, closePos + Len(closeTag),
                                    Len(workingText))),
                       nodes |-> Append(nodes1,
                                        ElementNode(name, attributes, content, FALSE))]

\* The while loop of XMLParser.parse: the nodes handed to the visitor, in
\* order.
RECURSIVE ParseLoop(_, _)
ParseLoop(workingText, nodes) ==
  IF Len(workingText) = 0 THEN nodes
  ELSE LET step == ParseStep(workingText, nodes)
       IN  IF step.stop THEN step.nodes ELSE ParseLoop(step.workingText, step.nodes)

\* XMLParser.parse(text, visitor) at depth 0.
XMLParse(text) == ParseLoop(Trim(text), <<>>)

(***************************************************************************)
(* Prompt parsing (core/src/prompt.ts, core/src/generate.ts)               *)
(***************************************************************************)

Digits == {"0","1","2","3","4","5","6","7","8","9"}

DigitVal(c) ==
  CASE c = "0" -> 0 [] c = "1" -> 1 [] c = "2" -> 2 [] c = "3" -> 3
    [] c = "4" -> 4 [] c = "5" -> 5 [] c = "6" -> 6 [] c = "7" -> 7
    [] c = "8" -> 8 [] c = "9" -> 9

RECURSIVE NumVal(_, _)
NumVal(s, acc) ==
  IF s = <<>> THEN acc ELSE NumVal(Tail(s), 10 * acc + DigitVal(Head(s)))

\* JSON.parse on the texts of the model, whose JSON values are the integer
\* literals: ok is FALSE where JSON.parse throws a SyntaxError.
JSONParse(s) ==
  LET t == Trim(s) IN
  IF /\ t # <<>>
     /\ \A i \in 1..Len(t) : t[i] \in Digits
     /\ (Len(t) > 1 => t[1] # "0")
    THEN [ok |-> TRUE, value |-> NumVal(t, 0)]
    ELSE [ok |-> FALSE, value |-> 0]

NameAttr  == <<"n","a","m","e">>
MsgIdAttr == <<"m","s","g","I","d">>

ActionTag   == <<"a","c","t","i","o","n">>
ThinkingTag == <<"t","h","i","n","k","i","n","g">>
ResponseTag == <<"r","e","s","p","o","n","s","e">>

\* The initial output accumulator of generateChatOutput.
EmptyChatOutput == [calls |-> <<>>, thinking |-> <<>>, responses |-> <<>>]

\* visitors.action: the push is skipped when JSON.parse throws.
VisitAction(output, node) ==
  LET params == JSONParse(node.content) IN
  IF params.ok
    THEN [output EXCEPT !.calls =
            Append(@, [name |-> Get(node.attributes, NameAttr),
                       params |-> params.value])]
    ELSE output

\* visitors.thinking
VisitThinking(output, node) ==
  [output EXCEPT !.thinking =
     Append(@, [msgId |-> Get(node.attributes, MsgIdAttr), content |-> node.content])]

\* visitors.response
VisitResponse(output, node) ==
  [output EXCEPT !.responses =
     Append(@, [msgId |-> Get(node.attributes, MsgIdAttr), content |-> node.content])]

\* The node callback of createPrompt.parse: a visitor runs for an element
\* whose name is a key of the visitors object.
Visit(output, node) ==
  IF node.type = "element" /\ node.name = ActionTag THEN VisitAction(output, node)
  ELSE IF node.type = "element" /\ node.name = ThinkingTag THEN VisitThinking(output, node)
  ELSE IF node.type = "element" /\ node.name = ResponseTag THEN VisitResponse(output, node)
  ELSE output

RECURSIVE VisitAll(_, _)
VisitAll(output, nodes) ==
  IF nodes = <<>> THEN output
  ELSE VisitAll(Visit(output, Head(nodes)), Tail(nodes))

\* createPrompt(...).parse(response, visitors, output) with the visitors of
\* generateChatOutput and generateActionResults.
parse(response) == VisitAll(EmptyChatOutput, XMLParse(response))

(***************************************************************************)
(* Template rendering (core/src/prompt.ts: formatValue, template)          *)
(***************************************************************************)

\* JavaScript values: a string (a sequence of characters), a number, null,
\* undefined, a function, an array of values, an object (its own
\* properties as a sequence of <<key, value>> pairs).
JSValue(type, str, num, elems) ==
  [type |-> type, str |-> str, num |-> num, elems |-> elems]

StringValue(s)    == JSValue("string", s, 0, <<>>)
NumberValue(n)    == JSValue("number", <<>>, n, <<>>)
NullValue         == JSValue("null", <<>>, 0, <<>>)
UndefinedValue    == JSValue("undefined", <<>>, 0, <<>>)
ArrayValue(elems) == JSValue("array", <<>>, 0, elems)

DigitChar(d) ==
  CASE d = 0 -> "0" [] d = 1 -> "1" [] d = 2 -> "2" [] d = 3 -> "3"
    [] d = 4 -> "4" [] d = 5 -> "5" [] d = 6 -> "6" [] d = 7 -> "7"
    [] d = 8 -> "8" [] d = 9 -> "9"

\* The decimal text of a natural number.
RECURSIVE NumberText(_)
NumberText(n) ==
  IF n < 10 THEN <<DigitChar(n)>>
  ELSE Append(NumberText(n \div 10), DigitChar(n % 10))

\* Array.prototype.join on texts.
RECURSIVE Join(_, _)
Join(texts, sep) ==
  IF texts = <<>> THEN <<>>
  ELSE IF Len(texts) = 1 THEN texts[1]
  ELSE texts[1] \o sep \o Join(Tail(texts), sep)

\* JSON.stringify: ok is FALSE where it returns undefined (a function or
\* undefined at the top level); inside an array such a value is written as
\* null, inside an object its property is left out.
RECURSIVE JSONStringify(_)
JSONStringify(v) ==
  CASE v.type = "string" -> [ok |-> TRUE, text |-> <<"\"">> \o v.str \o <<"\"">>]
    [] v.type = "number" -> [ok |-> TRUE, text |-> NumberText(v.num)]
    [] v.type = "null" -> [ok |-> TRUE, text |-> <<"n", "u", "l", "l">>]
    [] v.type \in {"undefined", "function"} -> [ok |-> FALSE, text |-> <<>>]
    [] v.type = "array" ->
         [ok |-> TRUE,
          text |-> <<"[">>
                   \o Join([k \in 1..Len(v.elems) |->
                              IF JSONStringify(v.elems[k]).ok
                                THEN JSONStringify(v.elems[k]).text
                                ELSE <<"n", "u", "l", "l">>], <<",">>)
                   \o <<"]">>]
    [] v.type = "object" ->
         LET kept == SelectSeq(v.elems, LAMBDA p : JSONStringify(p[2]).ok)
         IN  [ok |-> TRUE,
              text |-> <<"{">>
                       \o Join([k \in 1..Len(kept) |->
                                  <<"\"">> \o kept[k][1] \o <<"\"", ":">>
                                    \o JSONStringify(kept[k][2]).text], <<",">>)
                       \o <<"}">>]

\* formatValue (lines 104-108): ok is FALSE where it returns undefined.
\* Array.prototype.join writes an undefined element as the empty text.
RECURSIVE formatValue(_)
formatValue(value) ==
  IF value.type = "array"
    THEN [ok |-> TRUE,
          text |-> Join([k \in 1..Len(value.elems) |->
                           IF formatValue(value.elems[k]).ok
                             THEN formatValue(value.elems[k]).text
                             ELSE <<>>], <<"\n">>)]
  ELSE IF value.type # "string" THEN JSONStringify(value)
  ELSE [ok |-> TRUE, text |-> value.str]

\* The properties every object inherits from Object.prototype (those of
\* the model's keys).
ObjectPrototype ==
  [k \in {<<"c", "o", "n", "s", "t", "r", "u", "c", "t", "o", "r">>} |->
     JSValue("function", <<>>, 0, <<>>)]

\* data[key]: an own property, else an inherited one, else undefined.
GetProperty(data, key) ==
  IF key \in DOMAIN data THEN data[key]
  ELSE IF key \in DOMAIN ObjectPrototype THEN ObjectPrototype[key]
  ELSE UndefinedValue

\* The replacer of line 115: formatValue(data[key] ?? ''); the value the
\* replacer returns is converted to a string by String.prototype.replace.
Replacement(data, key) ==
  LET value == GetProperty(data, key)
      formatted == IF value.type \in {"null", "undefined"}
                     THEN formatValue(StringValue(<<>>))
                     ELSE formatValue(value)
  IN  IF formatted.ok THEN formatted.text
      ELSE <<"u", "n", "d", "e", "f", "i", "n", "e", "d">>

\* str.replace(/\{\{(\w+)\}\}/g, replacer): the scan tries every position
\* from the left and, after a match, resumes right behind it.
RECURSIVE ReplaceScan(_, _, _, _)
ReplaceScan(str, i, data, acc) ==
  IF i > Len(str) THEN acc
  ELSE
    LET j == WordEnd(str, i + 2)
        matches == /\ OccursAt(str, <<"{", "{">>, i)
                   /\ j > i + 2
                   /\ OccursAt(str, <<"}", "}">>, j)
    IN  IF matches
          THEN ReplaceScan(str, j + 2, data,
                           acc \o Replacement(data, Slice(str, i + 2, j - 1)))
          ELSE ReplaceScan(str, i + 1, data, Append(acc, str[i]))

\* A faulty variant of template: the rendered text is scanned for
\* placeholders once more.
templateExpanded(str, data) ==
  ReplaceScan(ReplaceScan(str, 1, data, <<>>), 1, data, <<>>)

\* template (lines 110-117)
template(str, data) == ReplaceScan(str, 1, data, <<>>)

(***************************************************************************)
(* Inputs: templates and their variables                                   *)
(***************************************************************************)

\* The longest template, in parts, that the rendering specification draws.
MaxParts == 3

TextPart(text) == [kind |-> "text", text |-> text]
KeyPart(key)   == [kind |-> "key", text |-> key]

KeyName        == <<"n", "a", "m", "e">>
KeyItems       == <<"i", "t", "e", "m", "s">>
KeyCount       == <<"n">>
KeyObject      == <<"o">>
KeyNull        == <<"z">>

Hello      == TextPart(<<"H", "e", "l", "l", "o", " ">>)
ItemsLabel == TextPart(<<",", " ", "i", "t", "e", "m", "s", ":", " ">>)

\* The parts templates are made of: texts, one of them braces around
\* something that is not a run of \w characters, and keys, among them a key
\* no data has and the key constructor.
TemplateParts ==
  {Hello, ItemsLabel, TextPart(<<"{", "{", "a", "-", "b", "}", "}">>),
   KeyPart(KeyName), KeyPart(KeyItems), KeyPart(KeyCount), KeyPart(KeyObject),
   KeyPart(KeyNull), KeyPart(<<"x">>),
   KeyPart(<<"c", "o", "n", "s", "t", "r", "u", "c", "t", "o", "r">>)}

\* All templates of at most n parts.
RECURSIVE PartSeqs(_)
PartSeqs(n) ==
  IF n = 0 THEN {<<>>}
  ELSE LET shorter == PartSeqs(n - 1)
       IN  shorter \cup {Append(s, p) : s \in {x \in shorter : Len(x) = n - 1},
                                        p \in TemplateParts}

RECURSIVE TemplateText(_)
TemplateText(parts) ==
  IF parts = <<>> THEN <<>>
  ELSE (IF Head(parts).kind = "key"
          THEN <<"{", "{">> \o Head(parts).text \o <<"}", "}">>
          ELSE Head(parts).text) \o TemplateText(Tail(parts))

\* The data rendered:
\*   {name: "Bo", items: ["a", "b"], n: 7, o: {k: 1, f: undefined}, z: null}
\*   {name: [12, "s", null, ["a"]], items: "{{n}}", n: 0}
\*   {}
TemplateData ==
  { SetAttr(SetAttr(SetAttr(SetAttr(SetAttr(<<>>,
      KeyName, StringValue(<<"B", "o">>)),
      KeyItems, ArrayValue(<<StringValue(<<"a">>), StringValue(<<"b">>)>>)),
      KeyCount, NumberValue(7)),
      KeyObject, JSValue("object", <<>>, 0,
                         <<<<<<"k">>, NumberValue(1)>>, <<<<"f">>, UndefinedValue>>>>)),
      KeyNull, NullValue),
    SetAttr(SetAttr(SetAttr(<<>>,
      KeyName, ArrayValue(<<NumberValue(12), StringValue(<<"s">>), NullValue,
                            ArrayValue(<<StringValue(<<"a">>)>>)>>)),
      KeyItems, StringValue(<<"{", "{", "n", "}", "}">>)),
      KeyCount, NumberValue(0)),
    <<>> }

(***************************************************************************)
(* Inputs: the responses of the text-generation capability                 *)
(***************************************************************************)

\* The longest response, in items, that the parser specification scans.
MaxItems == 3

Open(tag, attrText) == <<"<">> \o tag \o attrText \o <<">">>
Close(tag) == <<"<", "/">> \o tag \o <<">">>
Attr(name, value) == <<" ">> \o name \o <<"=", "\"">> \o value \o <<"\"">>

\* <tag attr>body</tag>
Element(tag, attrText, body) == Open(tag, attrText) \o body \o Close(tag)

\* The items a response is made of.  wellFormed marks an element whose
\* open tag, body and close tag are all there and, for an action, whose
\* body is valid JSON.
Item(kind, tag, attrName, attrValue, body, wellFormed) ==
  [kind |-> kind, tag |-> tag, attrName |-> attrName, attrValue |-> attrValue,
   body |-> body, wellFormed |-> wellFormed]

ActionA1   == Item("element", ActionTag, NameAttr, <<"a">>, <<"1">>, TRUE)
ActionB2   == Item("element", ActionTag, NameAttr, <<"b">>, <<"2">>, TRUE)
ActionA2   == Item("element", ActionTag, NameAttr, <<"a">>, <<"2">>, TRUE)
ActionZ1   == Item("element", ActionTag, NameAttr, <<"z">>, <<"1">>, TRUE)
Thinking1  == Item("element", ThinkingTag, MsgIdAttr, <<"m">>, <<"o", "k">>, TRUE)
Response1  == Item("element", ResponseTag, MsgIdAttr, <<"m">>, <<"h", "i">>, TRUE)

\* The items responses are drawn from: beside the above, an action whose
\* body is not JSON, a second response, an element of an unknown tag, free
\* text, the self-closing elements <response/> and <response msgId="m" />,
\* the open tag <thinking msgId="m"> with a body and no close tag, and the
\* unfinished tag <re.
Items ==
  {ActionA1, ActionB2, Thinking1, Response1,
   Item("element", ActionTag, NameAttr, <<"a">>, <<"{">>, FALSE),
   Item("element", ResponseTag, MsgIdAttr, <<"m">>, <<"y", "o">>, TRUE),
   Item("element", <<"x">>, NameAttr, <<"a">>, <<"1">>, TRUE),
   Item("text", <<>>, <<>>, <<>>, <<"s", "o", " ">>, FALSE),
   Item("closed", ResponseTag, <<>>, <<>>, <<"/">>, FALSE),
   Item("closed", ResponseTag, MsgIdAttr, <<"m">>, <<" ", "/">>, FALSE),
   Item("open", ThinkingTag, MsgIdAttr, <<"m">>, <<"o", "k">>, FALSE),
   Item("unfinished", <<"r", "e">>, <<>>, <<>>, <<>>, FALSE)}

\* The text of an item; the body of a self-closing element is what stands
\* between its attributes and the > of its tag.
RenderItem(item) ==
  CASE item.kind = "text" -> item.body
    [] item.kind = "closed" ->
         Open(item.tag, (IF item.attrName = <<>> THEN <<>>
                         ELSE Attr(item.attrName, item.attrValue)) \o item.body)
    [] item.kind = "open" ->
         Open(item.tag, Attr(item.attrName, item.attrValue)) \o item.body
    [] item.kind = "unfinished" -> <<"<">> \o item.tag
    [] OTHER -> Element(item.tag, Attr(item.attrName, item.attrValue), item.body)

RECURSIVE RenderItems(_)
RenderItems(items) ==
  IF items = <<>> THEN <<>> ELSE RenderItem(Head(items)) \o RenderItems(Tail(items))

\* All responses of at most n items.
RECURSIVE ItemSeqs(_)
ItemSeqs(n) ==
  IF n = 0 THEN {<<>>}
  ELSE LET shorter == ItemSeqs(n - 1)
       IN  shorter \cup {Append(s, i) : s \in {x \in shorter : Len(x) = n - 1}, i \in Items}

(***************************************************************************)
(* State of the runtime and of the turns                                   *)
(***************************************************************************)

VARIABLES
  memories,    \* runtime.memories: per table, the stored memories, oldest first
  nextId,      \* the id the store assigns to the next memory
  sent,        \* the messages handed to client.sendMessage, in order
  allowed,     \* the turns that the environment starts
  script,      \* the responses the text generation can return in this run
  db,          \* runtime.db: per record, the number of create calls received
  registeredActions, \* runtime.actions: the registered actions, in order
  options,     \* the options the runtime was constructed with
  memoryManagers, \* runtime.memoryManagers: per table name, the manager
  memoryConfig,   \* runtime.memories: per table, the manager object
  inventory,   \* runtime.inventory: the inventory providers, in order
  listeners,   \* runtime.listeners: per event, the listeners in insertion order
  subscriptions, \* the unsubscribe functions on has returned, and whether called
  emitted,     \* history: one entry per emit, with the listeners it invoked
  pc,          \* per turn, the position inside handleRoomMessage
  local,       \* per turn, the local variables of handleRoomMessage
  dispatched,  \* history: one entry per processActions invocation
  invoked,     \* history: one entry per action.handler invocation
  prompts,     \* history: one entry per rendered generation prompt
  items,       \* parser and template specifications: the input drawn
  phase,       \* parser and template specifications: the step reached
  output       \* parser and template specifications: the result

vars ==
  <<memories, nextId, sent, allowed, script, db, registeredActions, options,
    memoryManagers, memoryConfig, inventory, listeners, subscriptions, emitted,
    pc, local, dispatched, invoked, prompts, items, phase, output>>

storeVars == <<memories, nextId>>
\* The environment of a run and the account database, which no step after
\* ensureConnection changes.
envVars ==
  <<allowed, script, db, registeredActions, options, memoryManagers,
    memoryConfig, inventory, listeners, subscriptions, emitted>>
histVars == <<dispatched, invoked, prompts>>
parseVars == <<items, phase, output>>

Turns == {"t1", "t2"}
Rooms == {"r1", "r2"}

AgentId == "agent"
UserId == "user"

\* maxSteps of handleRoomMessage.
maxSteps == 3

\* options.actions, in registration order.  parameters is the set of raw
\* params the action's schema accepts, results the set of values its handler
\* can return (a handler can also throw); dynamic tells that parameters is
\* a function of (runtime, message, state).
RuntimeActions ==
  << [name |-> <<"a">>, enabled |-> TRUE,  dynamic |-> FALSE, parameters |-> {1},
      results |-> {7}],
     [name |-> <<"b">>, enabled |-> FALSE, dynamic |-> FALSE, parameters |-> {2},
      results |-> {8}] >>

\* The responses the text-generation capability returns in a turn.
LLMResponses ==
  { <<Thinking1>>,
    <<Thinking1, Response1>>,
    <<Thinking1, ActionA1>>,
    <<Thinking1, ActionB2, Response1>>,
    <<Thinking1, ActionA2>>,
    <<Thinking1, ActionZ1>>,
    <<Thinking1, ActionA1, ActionB2>>,
    <<Response1, ActionA1>> }

(***************************************************************************)
(* Memory store (MemoryManager)                                            *)
(***************************************************************************)

Reverse(s) == [i \in 1..Len(s) |-> s[Len(s) + 1 - i]]

\* createMemory: the store assigns the id and appends the record.
createMemory(mems, table, id, userId, roomId, content) ==
  [mems EXCEPT ![table] =
     Append(@, [id |-> id, type |-> table, userId |-> userId,
                roomId |-> roomId, content |-> content])]

\* The record createMemory returns.
Created(mems, table) == mems[table][Len(mems[table])]

\* getMemories({roomId}): the room's memories of a table, newest first.
getMemories(mems, table, roomId) ==
  Reverse(SelectSeq(mems[table], LAMBDA m : m.roomId = roomId))

(***************************************************************************)
(* State composer (ElizaRuntime.getRoomState, composeState,                *)
(* updateRecentMessageState)                                               *)
(***************************************************************************)

isActionCall(memory) == memory.content.type = "call"
isActionResult(memory) == memory.content.type = "result"

\* State.actions; the Maps calls and results are kept as the sequences of
\* their values in insertion order (their keys are the values' ids).
EmptyActions == [calls |-> <<>>, results |-> <<>>, processing |-> {}]

\* One iteration of the loop of getRoomState over the action memories.
FoldAction(actions, call) ==
  LET a1 == IF isActionCall(call)
              THEN [actions EXCEPT !.calls = Append(@, call),
                                   !.processing = @ \cup {call.id}]
              ELSE actions
  IN  IF isActionResult(call)
        THEN [a1 EXCEPT !.processing = @ \ {call.content.callId},
                        !.results = Append(@, call)]
        ELSE a1

RECURSIVE FoldActions(_, _)
FoldActions(actions, calls) ==
  IF calls = <<>> THEN actions
  ELSE FoldActions(FoldAction(actions, Head(calls)), Tail(calls))

\* A faulty variant of getRoomState: the messages are read without the room
\* filter.
getRoomStateUnscoped(mems, roomId) ==
  [messages |-> Reverse(mems.messages),
   actions  |-> FoldActions(EmptyActions, getMemories(mems, "actions", roomId)),
   thoughts |-> getMemories(mems, "thoughts", roomId)]

getRoomState(mems, roomId) ==
  [messages |-> getMemories(mems, "messages", roomId),
   actions  |-> FoldActions(EmptyActions, getMemories(mems, "actions", roomId)),
   thoughts |-> getMemories(mems, "thoughts", roomId)]

\* db.getActorDetails({roomId}): the participants of the room.
getActorDetails(d, roomId) ==
  {p[1] : p \in {q \in DOMAIN d.participants : q[2] = roomId /\ d.participants[q] > 0}}

\* A faulty variant of composeState: the inbound message of the turn is put
\* in front of the room's other messages.
composeStateOwnFirst(d, mems, message) ==
  LET rs == getRoomState(mems, message.roomId) IN
  [agent |-> AgentId,
   actors |-> getActorDetails(d, message.roomId),
   messages |-> <<message>> \o SelectSeq(rs.messages, LAMBDA m : m.id # message.id),
   actions |-> rs.actions, thoughts |-> rs.thoughts,
   inventory |-> inventory,
   room |-> [id |-> message.roomId]]

composeState(d, mems, message) ==
  LET rs == getRoomState(mems, message.roomId) IN
  [agent |-> AgentId,
   actors |-> getActorDetails(d, message.roomId),
   messages |-> rs.messages, actions |-> rs.actions, thoughts |-> rs.thoughts,
   inventory |-> inventory,
   room |-> [id |-> message.roomId]]

\* A faulty variant of updateRecentMessageState: the spread order is
\* reversed, {...updated, ...state}, so the given state's fields win.
updateRecentMessageStateStale(mems, state) == state

updateRecentMessageState(mems, state) ==
  LET updated == getRoomState(mems, state.room.id) IN
  [state EXCEPT !.messages = updated.messages,
                !.actions = updated.actions,
                !.thoughts = updated.thoughts]

(***************************************************************************)
(* Action dispatcher (ElizaRuntime.processActions, processActionCall)      *)
(***************************************************************************)

\* A faulty variant of FindAction: the last registered action of the name
\* is found.
FindActionLast(name) ==
  LET hits == {i \in 1..Len(registeredActions) : registeredActions[i].name = name}
  IN  IF hits = {} THEN 0 ELSE CHOOSE i \in hits : \A j \in hits : i >= j

\* this.actions.find(action => action.name === name): the index of the
\* first registered action of that name, 0 when there is none.
FindAction(name) ==
  LET hits == {i \in 1..Len(registeredActions) : registeredActions[i].name = name}
  IN  IF hits = {} THEN 0 ELSE CHOOSE i \in hits : \A j \in hits : i <= j

\* The schema a function-valued parameters computes: the values the action
\* accepts, less those the state already holds a result of this action for.
ComputedParameters(action, message, state) ==
  action.parameters \
    {state.actions.results[k].content.params :
       k \in {j \in 1..Len(state.actions.results) :
                state.actions.results[j].content.name = action.name}}

\* A faulty variant of Schema: a function-valued parameters is not called;
\* the values the action accepts in some state all pass.
SchemaUncalled(action, message, state) == action.parameters

\* processActionCall lines 211-214: the schema of the action, computed from
\* the message and the state when parameters is a function.
Schema(action, message, state) ==
  IF action.dynamic THEN ComputedParameters(action, message, state)
  ELSE action.parameters

\* schema.parse(params) returns normally.
SchemaAccepts(schema, params) == params \in schema

\* A faulty variant of DispatchLoop: a call of an unregistered name ends the
\* loop (break) instead of being skipped (continue).
RECURSIVE DispatchLoopBreak(_, _, _, _)
DispatchLoopBreak(calls, started, message, state) ==
  IF calls = <<>> THEN started
  ELSE
    LET call == Head(calls)
        idx  == FindAction(call.content.name)
    IN  IF ~isActionCall(call) THEN DispatchLoopBreak(Tail(calls), started, message, state)
        ELSE IF idx = 0 THEN started
        ELSE IF ~SchemaAccepts(Schema(registeredActions[idx], message, state),
                                call.content.params)
          THEN DispatchLoopBreak(Tail(calls), started, message, state)
        ELSE DispatchLoopBreak(Tail(calls),
                               Append(started, [callId |-> call.id, action |-> idx,
                                                params |-> call.content.params]),
                          message, state)

\* A faulty variant of DispatchLoop: a call that fails its schema ends the
\* loop (the throw of schema.parse is not turned into a rejected promise).
RECURSIVE DispatchLoopAbort(_, _, _, _)
DispatchLoopAbort(calls, started, message, state) ==
  IF calls = <<>> THEN started
  ELSE
    LET call == Head(calls)
        idx  == FindAction(call.content.name)
    IN  IF ~isActionCall(call) THEN DispatchLoopAbort(Tail(calls), started, message, state)
        ELSE IF idx = 0 THEN DispatchLoopAbort(Tail(calls), started, message, state)
        ELSE IF ~SchemaAccepts(Schema(registeredActions[idx], message, state),
                                call.content.params)
          THEN started
        ELSE DispatchLoopAbort(Tail(calls),
                               Append(started, [callId |-> call.id, action |-> idx,
                                                params |-> call.content.params]),
                          message, state)

\* A faulty variant of DispatchLoop: the loop ends after the first call it
\* has started.
RECURSIVE DispatchLoopFirstOnly(_, _, _, _)
DispatchLoopFirstOnly(calls, started, message, state) ==
  IF calls = <<>> THEN started
  ELSE
    LET call == Head(calls)
        idx  == FindAction(call.content.name)
    IN  IF ~isActionCall(call) THEN DispatchLoopFirstOnly(Tail(calls), started, message, state)
        ELSE IF idx = 0 THEN DispatchLoopFirstOnly(Tail(calls), started, message, state)
        ELSE IF ~SchemaAccepts(Schema(registeredActions[idx], message, state),
                                call.content.params)
          THEN DispatchLoopFirstOnly(Tail(calls), started, message, state)
        ELSE Append(started, [callId |-> call.id, action |-> idx,
                              params |-> call.content.params])

\* Lines 157-166 of client.ts: the actions the prompt of the initial round
\* offers, runtime.actions.filter((action) => action.enabled).
OfferedActions == SelectSeq(registeredActions, LAMBDA action : action.enabled)

\* A faulty variant of DispatchLoop: a call of an action that is not
\* enabled is skipped.
RECURSIVE DispatchLoopEnabledOnly(_, _, _, _)
DispatchLoopEnabledOnly(calls, started, message, state) ==
  IF calls = <<>> THEN started
  ELSE
    LET call == Head(calls)
        idx  == FindAction(call.content.name)
    IN  IF ~isActionCall(call)
          THEN DispatchLoopEnabledOnly(Tail(calls), started, message, state)
        ELSE IF idx = 0 \/ ~registeredActions[idx].enabled
          THEN DispatchLoopEnabledOnly(Tail(calls), started, message, state)
        ELSE IF ~SchemaAccepts(Schema(registeredActions[idx], message, state),
                                call.content.params)
          THEN DispatchLoopEnabledOnly(Tail(calls), started, message, state)
        ELSE DispatchLoopEnabledOnly(Tail(calls),
                          Append(started, [callId |-> call.id, action |-> idx,
                                           params |-> call.content.params]),
                          message, state)

\* The synchronous part of processActions: the for loop over the batch, each
\* processActionCall running up to its first await.  started lists the
\* handler invocations, in order.
RECURSIVE DispatchLoop(_, _, _, _)
DispatchLoop(calls, started, message, state) ==
  IF calls = <<>> THEN started
  ELSE
    LET call == Head(calls)
        idx  == FindAction(call.content.name)
    IN  IF ~isActionCall(call) THEN DispatchLoop(Tail(calls), started, message, state)
        ELSE IF idx = 0 THEN DispatchLoop(Tail(calls), started, message, state)
        ELSE IF ~SchemaAccepts(Schema(registeredActions[idx], message, state),
                                call.content.params)
          THEN DispatchLoop(Tail(calls), started, message, state)
        ELSE DispatchLoop(Tail(calls),
                          Append(started, [callId |-> call.id, action |-> idx,
                                           params |-> call.content.params]),
                          message, state)

\* A faulty variant of ResultContent: the call's params are stored as the
\* result.
ResultContentParams(call, result) ==
  [type |-> "result", msgId |-> call.content.msgId, name |-> call.content.name,
   params |-> call.content.params, callId |-> call.id,
   result |-> call.content.params]

\* The content of the Result memory processActionCall writes.
ResultContent(call, result) ==
  [type |-> "result", msgId |-> call.content.msgId, name |-> call.content.name,
   params |-> call.content.params, callId |-> call.id, result |-> result]

(***************************************************************************)
(* Orchestration loop (handleRoomMessage)                                  *)
(***************************************************************************)

NoMemory == [id |-> 0]

\* runtime.providers, in registration order.
RuntimeProviders == <<"p1", "p2">>

\* The local variables of handleRoomMessage before the call: no state is
\* composed and none of the five tasks of ensureConnection is started.
InitLocal ==
  [message |-> NoMemory,
   state |-> [agent |-> AgentId, actors |-> {}, messages |-> <<>>,
              actions |-> EmptyActions, thoughts |-> <<>>, inventory |-> <<>>,
              room |-> [id |-> "none"]],
   out |-> EmptyChatOutput,
   response |-> NoMemory, actionResponse |-> NoMemory, newActionCalls |-> <<>>, actionCallMemories |-> <<>>,
   i |-> 0, step |-> 0, pending |-> {}, writing |-> {}, error |-> "none",
   roomId |-> "none", tasks |-> [task \in {"agent", "user", "room", "userLink", "agentLink"} |-> "idle"], providerPromise |-> <<>>]

\* responses.map(r => r.content).join('\n')
RECURSIVE JoinContents(_)
JoinContents(rs) ==
  IF rs = <<>> THEN <<>>
  ELSE IF Len(rs) = 1 THEN rs[1].content
  ELSE rs[1].content \o <<"\n">> \o JoinContents(Tail(rs))

\* A faulty variant of LoopPc: the step cap is compared with >=.
LoopPcOffByOne(newActionCalls, step) ==
  IF Len(newActionCalls) > 0 /\ maxSteps >= step THEN "persist" ELSE "done"

\* The while condition of the action loop.
LoopPc(newActionCalls, step) ==
  IF Len(newActionCalls) > 0 /\ maxSteps > step THEN "persist" ELSE "done"

\* A faulty variant of Prompt: the conversation is passed newest first.
PromptNewestFirst(t, kind, l, failed, out) ==
  [turn |-> t, kind |-> kind, failed |-> failed, out |-> out,
   msg |-> IF l.state.messages = <<>> THEN NoMemory ELSE l.state.messages[1],
   conversation |-> IF l.state.messages = <<>> THEN <<>>
                    ELSE Tail(l.state.messages),
   results |-> l.state.actions.results,
   calls |-> l.actionCallMemories]

\* The variables rendered into a generation prompt, with the outcome of the
\* round: failed when the text generation threw, else its parsed output.
Prompt(t, kind, l, failed, out) ==
  [turn |-> t, kind |-> kind, failed |-> failed, out |-> out,
   msg |-> IF l.state.messages = <<>> THEN NoMemory ELSE l.state.messages[1],
   conversation |-> IF l.state.messages = <<>> THEN <<>>
                    ELSE Reverse(Tail(l.state.messages)),
   results |-> l.state.actions.results,
   calls |-> l.actionCallMemories]

\* The tasks of the first and of the second Promise.all of ensureConnection.
ConnectTasks == {"agent", "user", "room"}
LinkTasks == {"userLink", "agentLink"}

\* The read of a task: db.getAccountById, db.getRoom or
\* db.getParticipantsForRoom(roomId).includes(userId) finds the record.
Exists(d, task, roomId) ==
  CASE task = "agent" -> d.accounts[AgentId] > 0
    [] task = "user" -> d.accounts[UserId] > 0
    [] task = "room" -> d.rooms[roomId] > 0
    [] task = "userLink" -> d.participants[<<UserId, roomId>>] > 0
    [] task = "agentLink" -> d.participants[<<AgentId, roomId>>] > 0

\* The write of a task: db.createAccount, db.createRoom or db.addParticipant.
Insert(d, task, roomId) ==
  CASE task = "agent" -> [d EXCEPT !.accounts[AgentId] = @ + 1]
    [] task = "user" -> [d EXCEPT !.accounts[UserId] = @ + 1]
    [] task = "room" -> [d EXCEPT !.rooms[roomId] = @ + 1]
    [] task = "userLink" -> [d EXCEPT !.participants[<<UserId, roomId>>] = @ + 1]
    [] task = "agentLink" -> [d EXCEPT !.participants[<<AgentId, roomId>>] = @ + 1]

\* One await of a create-if-absent task: the read returns and decides
\* whether the create is called, or the create call completes.
EnsureStep(t, task) ==
  /\ \/ /\ local[t].tasks[task] = "check"
        /\ local' = [local EXCEPT ![t].tasks[task] =
                       IF Exists(db, task, local[t].roomId) THEN "done" ELSE "create"]
        /\ UNCHANGED db
     \/ /\ local[t].tasks[task] = "create"
        /\ db' = Insert(db, task, local[t].roomId)
        /\ local' = [local EXCEPT ![t].tasks[task] = "done"]
  /\ UNCHANGED <<storeVars, sent, allowed, script, registeredActions, options,
               memoryManagers, memoryConfig, inventory, listeners,
               subscriptions, emitted, pc, histVars, parseVars>>

ensureUserExists(t) == \E task \in {"agent", "user"} : EnsureStep(t, task)

ensureRoomExists(t) == EnsureStep(t, "room")

ensureParticipantInRoom(t) == \E task \in LinkTasks : EnsureStep(t, task)

\* ensureConnection: the three tasks of the first Promise.all are started
\* when the inbound message arrives (client.ts line 34); when all three are
\* done the two tasks of the second Promise.all are started; when both are
\* done ensureConnection returns.
ensureConnection(t) ==
  /\ \/ /\ pc[t] = "idle"
        /\ t \in allowed
        /\ \E roomId \in Rooms :
             local' = [local EXCEPT ![t].roomId = roomId,
                                    ![t].tasks.agent = "check",
                                    ![t].tasks.user = "check",
                                    ![t].tasks.room = "check"]
        /\ pc' = [pc EXCEPT ![t] = "connect"]
     \/ /\ pc[t] = "connect"
        /\ \A task \in ConnectTasks : local[t].tasks[task] = "done"
        /\ local' = [local EXCEPT ![t].tasks.userLink = "check",
                                  ![t].tasks.agentLink = "check"]
        /\ pc' = [pc EXCEPT ![t] = "link"]
     \/ /\ pc[t] = "link"
        /\ \A task \in LinkTasks : local[t].tasks[task] = "done"
        /\ pc' = [pc EXCEPT ![t] = "start"]
        /\ UNCHANGED local
  /\ UNCHANGED <<storeVars, sent, envVars, histVars, parseVars>>

\* Lines 34-44: a db call of ensureConnection or the createMemory of the
\* inbound message throws; both run outside the try block, so
\* handleRoomMessage rejects.  The other tasks of the Promise.all go on.
StartFails(t) ==
  /\ \/ /\ pc[t] \in {"connect", "link"}
        /\ \E task \in ConnectTasks \cup LinkTasks :
             /\ local[t].tasks[task] \in {"check", "create"}
             /\ local' = [local EXCEPT ![t].tasks[task] = "failed",
                                       ![t].error = pc[t]]
     \/ /\ pc[t] = "start"
        /\ local' = [local EXCEPT ![t].error = "start"]
  /\ pc' = [pc EXCEPT ![t] = "rejected"]
  /\ UNCHANGED <<storeVars, sent, envVars, histVars, parseVars>>

\* Lines 36-44: the inbound message is recorded.
Start(t) ==
  /\ pc[t] = "start"
  /\ \E roomId \in {local[t].roomId} :
       LET mems == createMemory(memories, "messages", nextId, UserId, roomId,
                                [text |-> <<"g", "o">>])
       IN  /\ memories' = mems
           /\ nextId' = nextId + 1
           /\ local' = [local EXCEPT ![t].message = Created(mems, "messages")]
  /\ pc' = [pc EXCEPT ![t] = "compose"]
  /\ UNCHANGED <<sent, envVars, histVars, parseVars>>

\* Lines 49 and 95-99: composeState, then the get of every provider is
\* called.
Compose(t) ==
  /\ pc[t] = "compose"
  /\ local' = [local EXCEPT
                 ![t].state = composeState(db, memories, local[t].message),
                 ![t].providerPromise = [p \in 1..Len(RuntimeProviders) |-> "pending"]]
  /\ pc' = [pc EXCEPT ![t] = "providers"]
  /\ UNCHANGED <<storeVars, sent, envVars, histVars, parseVars>>

\* The promise of a provider's get is fulfilled or rejects.
ProviderSettles(t) ==
  /\ pc[t] = "providers"
  /\ \E p \in 1..Len(RuntimeProviders) :
       /\ local[t].providerPromise[p] = "pending"
       /\ \/ local' = [local EXCEPT ![t].providerPromise[p] = "fulfilled"]
          \/ local' = [local EXCEPT ![t].providerPromise[p] = "rejected"]
  /\ UNCHANGED <<storeVars, sent, envVars, pc, histVars, parseVars>>

\* A faulty variant of ProvidersSettled: the wait ends with the first
\* settled promise.
ProvidersSettledAny(t) ==
  /\ pc[t] = "providers"
  /\ \E p \in 1..Len(RuntimeProviders) : local[t].providerPromise[p] # "pending"
  /\ local' = [local EXCEPT ![t].providerPromise = <<>>]
  /\ pc' = [pc EXCEPT ![t] = "generate"]
  /\ UNCHANGED <<storeVars, sent, envVars, histVars, parseVars>>

\* A faulty variant of ProvidersSettled: the wait ends only when every
\* promise is fulfilled, so a rejected promise is awaited for ever.
ProvidersSettledFulfilledOnly(t) ==
  /\ pc[t] = "providers"
  /\ \A p \in 1..Len(RuntimeProviders) : local[t].providerPromise[p] = "fulfilled"
  /\ local' = [local EXCEPT ![t].providerPromise = <<>>]
  /\ pc' = [pc EXCEPT ![t] = "generate"]
  /\ UNCHANGED <<storeVars, sent, envVars, histVars, parseVars>>

\* Line 101: Promise.allSettled returns once no promise is pending; its
\* result, and with it the promises, are not read again.
ProvidersSettled(t) ==
  /\ pc[t] = "providers"
  /\ \A p \in 1..Len(RuntimeProviders) : local[t].providerPromise[p] # "pending"
  /\ local' = [local EXCEPT ![t].providerPromise = <<>>]
  /\ pc' = [pc EXCEPT ![t] = "generate"]
  /\ UNCHANGED <<storeVars, sent, envVars, histVars, parseVars>>

\* A faulty variant of GenerationRound: a failed text generation is taken
\* as an empty output and the round goes on.
GenerationRoundContinues(t, kind, from, to) ==
  /\ pc[t] = from
  /\ \/ /\ prompts' = Append(prompts, Prompt(t, kind, local[t], TRUE, EmptyChatOutput))
        /\ pc' = [pc EXCEPT ![t] = to]
        /\ local' = [local EXCEPT ![t].error = from, ![t].out = EmptyChatOutput]
     \/ \E r \in script :
          LET out == parse(RenderItems(r)) IN
          /\ prompts' = Append(prompts, Prompt(t, kind, local[t], FALSE, out))
          /\ local' = [local EXCEPT ![t].out = out]
          /\ pc' = [pc EXCEPT ![t] = to]
  /\ UNCHANGED <<storeVars, sent, envVars, dispatched, invoked, parseVars>>

\* A generation round: the prompt is rendered, then the text generation
\* either throws (caught at line 290) or returns a response that is parsed.
GenerationRound(t, kind, from, to) ==
  /\ pc[t] = from
  /\ \/ /\ prompts' = Append(prompts, Prompt(t, kind, local[t], TRUE, EmptyChatOutput))
        /\ pc' = [pc EXCEPT ![t] = "done"]
        /\ local' = [local EXCEPT ![t].error = from]
     \/ \E r \in script :
          LET out == parse(RenderItems(r)) IN
          /\ prompts' = Append(prompts, Prompt(t, kind, local[t], FALSE, out))
          /\ local' = [local EXCEPT ![t].out = out]
          /\ pc' = [pc EXCEPT ![t] = to]
  /\ UNCHANGED <<storeVars, sent, envVars, dispatched, invoked, parseVars>>

\* Lines 157-173: generateChatOutput.
GenerateChat(t) == GenerationRound(t, "chat", "generate", "thought")

\* Lines 238-258: generateActionResults.
GenerateResults(t) == GenerationRound(t, "results", "generateResults", "thoughtResults")

\* A faulty variant of PersistThought: only the initial round writes its
\* Thought memory.
PersistThoughtInitialOnly(t, from, to) ==
  /\ pc[t] = from
  /\ IF local[t].out.thinking = <<>>
       THEN /\ pc' = [pc EXCEPT ![t] = "done"]
            /\ local' = [local EXCEPT ![t].error = "thinking"]
            /\ UNCHANGED storeVars
       ELSE IF from # "thought"
         THEN /\ pc' = [pc EXCEPT ![t] = to]
              /\ UNCHANGED <<storeVars, local>>
       ELSE /\ memories' = createMemory(memories, "thoughts", nextId, AgentId,
                                        local[t].message.roomId,
                                        [msgId |-> local[t].message.id,
                                         text |-> local[t].out.thinking[1].content])
            /\ nextId' = nextId + 1
            /\ pc' = [pc EXCEPT ![t] = to]
            /\ UNCHANGED local
  /\ UNCHANGED <<sent, envVars, histVars, parseVars>>

\* A faulty variant of PersistThought: a round without thinking entry writes
\* no Thought memory and goes on (thinking[0]?.content).
PersistThoughtOptional(t, from, to) ==
  /\ pc[t] = from
  /\ IF local[t].out.thinking = <<>>
       THEN /\ pc' = [pc EXCEPT ![t] = to]
            /\ UNCHANGED <<storeVars, local>>
       ELSE /\ memories' = createMemory(memories, "thoughts", nextId, AgentId,
                                        local[t].message.roomId,
                                        [msgId |-> local[t].message.id,
                                         text |-> local[t].out.thinking[1].content])
            /\ nextId' = nextId + 1
            /\ pc' = [pc EXCEPT ![t] = to]
            /\ UNCHANGED local
  /\ UNCHANGED <<sent, envVars, histVars, parseVars>>

\* A faulty variant of PersistThought: msgId is the id of the newest message
\* of the state instead of the id of the inbound message.
PersistThoughtNewestMsg(t, from, to) ==
  /\ pc[t] = from
  /\ IF local[t].out.thinking = <<>>
       THEN /\ pc' = [pc EXCEPT ![t] = "done"]
            /\ local' = [local EXCEPT ![t].error = "thinking"]
            /\ UNCHANGED storeVars
       ELSE /\ memories' = createMemory(memories, "thoughts", nextId, AgentId,
                                        local[t].message.roomId,
                                        [msgId |-> local[t].state.messages[1].id,
                                         text |-> local[t].out.thinking[1].content])
            /\ nextId' = nextId + 1
            /\ pc' = [pc EXCEPT ![t] = to]
            /\ UNCHANGED local
  /\ UNCHANGED <<sent, envVars, histVars, parseVars>>

\* The Thought memory of a round; reading thinking[0].content of an empty
\* thinking list throws a TypeError (caught at line 290).
PersistThought(t, from, to) ==
  /\ pc[t] = from
  /\ IF local[t].out.thinking = <<>>
       THEN /\ pc' = [pc EXCEPT ![t] = "done"]
            /\ local' = [local EXCEPT ![t].error = "thinking"]
            /\ UNCHANGED storeVars
       ELSE /\ memories' = createMemory(memories, "thoughts", nextId, AgentId,
                                        local[t].message.roomId,
                                        [msgId |-> local[t].message.id,
                                         text |-> local[t].out.thinking[1].content])
            /\ nextId' = nextId + 1
            /\ pc' = [pc EXCEPT ![t] = to]
            /\ UNCHANGED local
  /\ UNCHANGED <<sent, envVars, histVars, parseVars>>

\* Lines 179-188.
Thought(t) == PersistThought(t, "thought", "respond")

\* Lines 264-272.
ThoughtResults(t) == PersistThought(t, "thoughtResults", "respondResults")

\* Lines 190-201 and 207-213: the outbound message of the initial round is
\* persisted; without responses the action loop is entered directly.
Respond(t) ==
  /\ pc[t] = "respond"
  /\ IF Len(local[t].out.responses) > 0
       THEN LET mems == createMemory(memories, "messages", nextId, AgentId,
                                     local[t].message.roomId,
                                     [text |-> JoinContents(local[t].out.responses)])
            IN  /\ memories' = mems
                /\ nextId' = nextId + 1
                /\ local' = [local EXCEPT ![t].response = Created(mems, "messages")]
                /\ pc' = [pc EXCEPT ![t] = "refresh"]
       ELSE /\ local' = [local EXCEPT ![t].newActionCalls = local[t].out.calls,
                                      ![t].step = 0]
            /\ pc' = [pc EXCEPT ![t] = LoopPc(local[t].out.calls, 0)]
            /\ UNCHANGED storeVars
  /\ UNCHANGED <<sent, envVars, histVars, parseVars>>

\* Line 203: updateRecentMessageState.
Refresh(t) ==
  /\ pc[t] = "refresh"
  /\ local' = [local EXCEPT ![t].state = updateRecentMessageState(memories, local[t].state)]
  /\ pc' = [pc EXCEPT ![t] = "send"]
  /\ UNCHANGED <<storeVars, sent, envVars, histVars, parseVars>>

\* Lines 204-213: client.sendMessage, then the action loop is entered.
Send(t) ==
  /\ pc[t] = "send"
  /\ sent' = Append(sent, local[t].response)
  /\ local' = [local EXCEPT ![t].newActionCalls = local[t].out.calls,
                            ![t].step = 0]
  /\ pc' = [pc EXCEPT ![t] = LoopPc(local[t].out.calls, 0)]
  /\ UNCHANGED <<storeVars, envVars, histVars, parseVars>>

\* Lines 214-231: the for loop that persists the pending calls, one
\* createMemory per step; when it is over newActionCalls is emptied and the
\* loop breaks if there is no call memory at all.
Persist(t) ==
  /\ pc[t] = "persist"
  /\ LET l == local[t] IN
     IF l.i < Len(l.newActionCalls)
       THEN LET call == l.newActionCalls[l.i + 1]
                mems == createMemory(memories, "actions", nextId, AgentId,
                                     l.message.roomId,
                                     [type |-> "call", msgId |-> l.message.id,
                                      name |-> call.name, params |-> call.params])
            IN  /\ memories' = mems
                /\ nextId' = nextId + 1
                /\ local' = [local EXCEPT
                               ![t].actionCallMemories = Append(@, Created(mems, "actions")),
                               ![t].i = l.i + 1]
                /\ UNCHANGED pc
       ELSE /\ local' = [local EXCEPT ![t].newActionCalls = <<>>, ![t].i = 0]
            /\ pc' = [pc EXCEPT ![t] = IF Len(l.actionCallMemories) = 0
                                         THEN "done" ELSE "dispatch"]
            /\ UNCHANGED storeVars
  /\ UNCHANGED <<sent, envVars, histVars, parseVars>>

\* Line 234 and processActions lines 182-197: the batch is dispatched.
Dispatch(t) ==
  /\ pc[t] = "dispatch"
  /\ LET l       == local[t]
         started == DispatchLoop(l.actionCallMemories, <<>>, l.message, l.state)
     IN  /\ dispatched' = Append(dispatched,
              [turn |-> t, step |-> l.step, requested |-> l.out.calls,
               calls |-> [k \in 1..Len(l.actionCallMemories) |-> l.actionCallMemories[k].id],
               registered |-> Len(registeredActions)])
         /\ invoked' = invoked \o
              [k \in 1..Len(started) |->
                 [turn |-> t, step |-> l.step, callId |-> started[k].callId,
                  action |-> started[k].action, params |-> started[k].params,
                  status |-> "pending", value |-> 0]]
         /\ local' = [local EXCEPT ![t].pending = {started[k].callId : k \in 1..Len(started)}]
  /\ pc' = [pc EXCEPT ![t] = "settle"]
  /\ UNCHANGED <<storeVars, sent, envVars, prompts, parseVars>>

\* The history entry of the handler invocation in flight for call c of turn t.
InFlight(t, c) ==
  CHOOSE k \in 1..Len(invoked) :
    /\ invoked[k].turn = t
    /\ invoked[k].callId = c
    /\ invoked[k].status = "pending"

CallMemory(t, c) ==
  LET acm == local[t].actionCallMemories
  IN  acm[CHOOSE k \in 1..Len(acm) : acm[k].id = c]

\* processActionCall line 218: a handler returns; the createMemory of the
\* Result is awaited next.
HandlerReturn(t) ==
  /\ pc[t] = "settle"
  /\ \E c \in local[t].pending :
       \E result \in registeredActions[invoked[InFlight(t, c)].action].results :
         /\ invoked' = [invoked EXCEPT ![InFlight(t, c)].status = "returned"]
         /\ local' = [local EXCEPT ![t].pending = @ \ {c},
                                   ![t].writing = @ \cup {<<c, result>>}]
  /\ UNCHANGED <<storeVars, sent, envVars, pc, dispatched, prompts, parseVars>>

\* The history entry of the handler invocation of turn t whose Result is
\* being written for call c.
Returned(t, c) ==
  CHOOSE k \in 1..Len(invoked) :
    /\ invoked[k].turn = t
    /\ invoked[k].callId = c
    /\ invoked[k].status = "returned"

\* A faulty variant of WriteResult: the outcome is recorded by overwriting
\* the content of the Call memory.
WriteResultInPlace(t) ==
  /\ pc[t] = "settle"
  /\ \E w \in local[t].writing :
       /\ memories' =
            [memories EXCEPT !.actions =
               [k \in 1..Len(@) |->
                  IF @[k].id = w[1]
                    THEN [@[k] EXCEPT !.content = ResultContent(CallMemory(t, w[1]), w[2])]
                    ELSE @[k]]]
       /\ nextId' = nextId
       /\ invoked' = [invoked EXCEPT ![Returned(t, w[1])].status = "stored",
                                     ![Returned(t, w[1])].value = w[2]]
       /\ local' = [local EXCEPT ![t].writing = @ \ {w}]
  /\ UNCHANGED <<sent, envVars, pc, dispatched, prompts, parseVars>>

\* processActionCall lines 220-231: the Result memory is created and the
\* promise of the call resolves.
WriteResult(t) ==
  /\ pc[t] = "settle"
  /\ \E w \in local[t].writing :
       /\ memories' = createMemory(memories, "actions", nextId, AgentId,
                                   local[t].state.room.id,
                                   ResultContent(CallMemory(t, w[1]), w[2]))
       /\ nextId' = nextId + 1
       /\ invoked' = [invoked EXCEPT ![Returned(t, w[1])].status = "stored",
                                     ![Returned(t, w[1])].value = w[2]]
       /\ local' = [local EXCEPT ![t].writing = @ \ {w}]
  /\ UNCHANGED <<sent, envVars, pc, dispatched, prompts, parseVars>>

\* processActionCall lines 220-231: createMemory throws; the promise of the
\* call rejects and no Result memory is stored.
WriteFails(t) ==
  /\ pc[t] = "settle"
  /\ \E w \in local[t].writing :
       /\ invoked' = [invoked EXCEPT ![Returned(t, w[1])].status = "rejected"]
       /\ local' = [local EXCEPT ![t].writing = @ \ {w}]
  /\ UNCHANGED <<storeVars, sent, envVars, pc, dispatched, prompts, parseVars>>

\* processActionCall line 218: a handler throws; the promise rejects and no
\* Result memory is written.
HandlerThrow(t) ==
  /\ pc[t] = "settle"
  /\ \E c \in local[t].pending :
       /\ invoked' = [invoked EXCEPT ![InFlight(t, c)].status = "rejected"]
       /\ local' = [local EXCEPT ![t].pending = @ \ {c}]
  /\ UNCHANGED <<storeVars, sent, envVars, pc, dispatched, prompts, parseVars>>

\* A faulty variant of Settle: the state is re-read as soon as the loop has
\* started the calls, without awaiting their promises.
SettleEarly(t) ==
  /\ pc[t] = "settle"
  /\ local' = [local EXCEPT ![t].state = updateRecentMessageState(memories, local[t].state)]
  /\ pc' = [pc EXCEPT ![t] = "generateResults"]
  /\ UNCHANGED <<storeVars, sent, envVars, histVars, parseVars>>

\* processActions lines 200-202: every promise has settled and the state
\* is refreshed.
Settle(t) ==
  /\ pc[t] = "settle"
  /\ local[t].pending = {}
  /\ local[t].writing = {}
  /\ local' = [local EXCEPT ![t].state = updateRecentMessageState(memories, local[t].state)]
  /\ pc' = [pc EXCEPT ![t] = "generateResults"]
  /\ UNCHANGED <<storeVars, sent, envVars, histVars, parseVars>>

\* A faulty variant of NextIteration: step is not incremented.
NextIterationNoStep(t, l) ==
  /\ local' = [local EXCEPT ![t].newActionCalls = l.newActionCalls \o l.out.calls]
  /\ pc' = [pc EXCEPT ![t] = LoopPc(l.newActionCalls \o l.out.calls, l.step)]

\* TRUE where turn t awaits a persistence or client call inside the try
\* block of handleRoomMessage.
AwaitsCollaborator(t) ==
  \/ pc[t] \in {"compose", "refresh", "send", "sendResults"}
  \/ pc[t] \in {"thought", "thoughtResults"} /\ local[t].out.thinking # <<>>
  \/ pc[t] \in {"respond", "respondResults"} /\ Len(local[t].out.responses) > 0
  \/ pc[t] = "persist" /\ local[t].i < Len(local[t].newActionCalls)
  \/ pc[t] = "settle" /\ local[t].pending = {} /\ local[t].writing = {}

\* A faulty variant of CollaboratorFails: the error leaves the try block
\* and handleRoomMessage rejects.
CollaboratorFailsUncaught(t) ==
  /\ AwaitsCollaborator(t)
  /\ pc' = [pc EXCEPT ![t] = "rejected"]
  /\ local' = [local EXCEPT ![t].error = pc[t]]
  /\ UNCHANGED <<storeVars, sent, envVars, histVars, parseVars>>

\* Lines 290-292: a persistence or client call of the try block throws; the
\* error is caught and logged and handleRoomMessage returns.
CollaboratorFails(t) ==
  /\ AwaitsCollaborator(t)
  /\ pc' = [pc EXCEPT ![t] = "done"]
  /\ local' = [local EXCEPT ![t].error = pc[t]]
  /\ UNCHANGED <<storeVars, sent, envVars, histVars, parseVars>>

\* Lines 287-288 and the loop condition of line 213.
NextIteration(t, l) ==
  /\ local' = [local EXCEPT ![t].newActionCalls = l.newActionCalls \o l.out.calls,
                            ![t].step = l.step + 1]
  /\ pc' = [pc EXCEPT ![t] = LoopPc(l.newActionCalls \o l.out.calls, l.step + 1)]

\* A faulty variant of RespondResults: the responses of a follow-up round
\* are dropped.
RespondResultsDropped(t) ==
  /\ pc[t] = "respondResults"
  /\ NextIteration(t, local[t])
  /\ UNCHANGED <<storeVars, sent, envVars, histVars, parseVars>>

\* Lines 274-282: the outbound message of a follow-up round is persisted.
RespondResults(t) ==
  /\ pc[t] = "respondResults"
  /\ IF Len(local[t].out.responses) > 0
       THEN LET mems == createMemory(memories, "messages", nextId, AgentId,
                                     local[t].message.roomId,
                                     [text |-> JoinContents(local[t].out.responses)])
            IN  /\ memories' = mems
                /\ nextId' = nextId + 1
                /\ local' = [local EXCEPT ![t].actionResponse = Created(mems, "messages")]
                /\ pc' = [pc EXCEPT ![t] = "sendResults"]
       ELSE /\ NextIteration(t, local[t])
            /\ UNCHANGED storeVars
  /\ UNCHANGED <<sent, envVars, histVars, parseVars>>

\* Lines 284-288: client.sendMessage, then the next iteration.
SendResults(t) ==
  /\ pc[t] = "sendResults"
  /\ sent' = Append(sent, local[t].actionResponse)
  /\ NextIteration(t, local[t])
  /\ UNCHANGED <<storeVars, envVars, histVars, parseVars>>

(***************************************************************************)
(* Construction of the runtime (AgentRuntime and ElizaRuntime              *)
(* constructors) and its events (on, emit)                                 *)
(***************************************************************************)

\* The most calls of on, calls of emit, inventory providers and supplied
\* memory managers of a run of the runtime specification.
MaxSubscriptions == 2
MaxEmits == 1
MaxProviders == 1
MaxManagers == 1

\* registerMemoryManager(manager): a manager whose table name already has a
\* manager is skipped.
registerMemoryManager(managers, manager) ==
  IF managers[manager.tableName].by # "none" THEN managers
  ELSE [managers EXCEPT ![manager.tableName] = manager]

\* The AgentRuntime constructor, lines 183-197: the field initializers,
\* then options.managers are registered in order and every provider of
\* options.inventoryProviders is pushed to this.inventory.
RECURSIVE AgentRuntime(_)
AgentRuntime(opts) ==
  IF opts.managers = <<>>
    THEN [memoryManagers |-> [t \in {"actions", "messages", "thoughts"} |->
                                [tableName |-> t, by |-> "none", k |-> 0]],
          inventory |-> opts.inventoryProviders]
    ELSE LET k    == Len(opts.managers)
             base == AgentRuntime([opts EXCEPT !.managers = SubSeq(@, 1, k - 1)])
         IN  [base EXCEPT !.memoryManagers =
                registerMemoryManager(@, opts.managers[k])]

\* new ElizaRuntime(opts): super(opts); the initializer of the field
\* inventory that ElizaRuntime declares (part_004 line 40), which runs when
\* super returns; then the constructor body, in which createMemoryManager
\* makes a new manager for each table, hands it to registerMemoryManager
\* and returns it.
ElizaRuntime(opts) ==
  LET base    == AgentRuntime(opts)
      created == [t \in {"actions", "messages", "thoughts"} |->
                    [tableName |-> t, by |-> "createMemoryManager", k |-> 0]]
  IN  [memoryManagers |->
         registerMemoryManager(
           registerMemoryManager(
             registerMemoryManager(base.memoryManagers, created["actions"]),
             created["messages"]),
           created["thoughts"]),
       memories |-> created,
       inventory |-> <<>>]

getMemoryManager(tableName) == memoryManagers[tableName]

\* on(event, listener): the listener is added to the Set of the event,
\* which keeps a listener it already has in its place, and the function
\* that deletes it is returned.
on(event, listener) ==
  /\ phase = "constructed"
  /\ Len(subscriptions) < MaxSubscriptions
  /\ listeners' = [listeners EXCEPT ![event] =
                     IF \E k \in 1..Len(@) : @[k] = listener
                       THEN @ ELSE Append(@, listener)]
  /\ subscriptions' = Append(subscriptions,
                             [event |-> event, listener |-> listener,
                              called |-> FALSE])
  /\ UNCHANGED <<storeVars, sent, allowed, script, db, registeredActions, options,
                 memoryManagers, memoryConfig, inventory, emitted, pc, local,
                 histVars, parseVars>>

\* A function returned by on is called (again or for the first time):
\* this.listeners.get(name).delete(listener).
Unsubscribe(k) ==
  /\ phase = "constructed"
  /\ k \in 1..Len(subscriptions)
  /\ listeners' = [listeners EXCEPT ![subscriptions[k].event] =
                     SelectSeq(@, LAMBDA l : l # subscriptions[k].listener)]
  /\ subscriptions' = [subscriptions EXCEPT ![k].called = TRUE]
  /\ UNCHANGED <<storeVars, sent, allowed, script, db, registeredActions, options,
                 memoryManagers, memoryConfig, inventory, emitted, pc, local,
                 histVars, parseVars>>

\* emit(event, params): the listeners of the event's Set are called one
\* after the other in the Set's order.  The listeners return and call
\* neither on nor a function that on returned.
emit(event) ==
  /\ phase = "constructed"
  /\ Len(emitted) < MaxEmits
  /\ emitted' = Append(emitted, [event |-> event, invoked |-> listeners[event]])
  /\ UNCHANGED <<storeVars, sent, allowed, script, db, registeredActions, options,
                 memoryManagers, memoryConfig, inventory, listeners,
                 subscriptions, pc, local, histVars, parseVars>>

(***************************************************************************)
(* Specification of a turn                                                 *)
(***************************************************************************)

InitParseOff ==
  /\ items = <<>>
  /\ phase = "off"
  /\ output = EmptyChatOutput

\* The runtime after construction, its actions aside.
InitState ==
  /\ memories = [messages |-> <<>>, actions |-> <<>>, thoughts |-> <<>>]
  /\ db = [accounts |-> [a \in {AgentId, UserId} |-> 0],
           rooms |-> [r \in Rooms |-> 0],
           participants |-> [l \in {AgentId, UserId} \X Rooms |-> 0]]
  /\ nextId = 1
  /\ sent = <<>>
  /\ pc = [t \in Turns |-> "idle"]
  /\ local = [t \in Turns |-> InitLocal]
  /\ dispatched = <<>>
  /\ invoked = <<>>
  /\ prompts = <<>>

\* The constructor registers options.actions.
InitRuntime ==
  /\ InitState
  /\ registeredActions = RuntimeActions
  /\ options = [managers |-> <<>>, inventoryProviders |-> <<>>]
  /\ memoryManagers = ElizaRuntime(options).memoryManagers
  /\ memoryConfig = ElizaRuntime(options).memories
  /\ inventory = ElizaRuntime(options).inventory
  /\ listeners = [e \in {"e1", "e2"} |-> <<>>]
  /\ subscriptions = <<>>
  /\ emitted = <<>>

Init ==
  /\ InitRuntime
  /\ allowed = {"t1"}
  /\ script = LLMResponses
  /\ InitParseOff

Next ==
  \E t \in Turns :
    \/ ensureConnection(t)
    \/ ensureUserExists(t)
    \/ ensureRoomExists(t)
    \/ ensureParticipantInRoom(t)
    \/ StartFails(t)
    \/ Start(t)
    \/ Compose(t)
    \/ ProviderSettles(t)
    \/ ProvidersSettled(t)
    \/ GenerateChat(t)
    \/ Thought(t)
    \/ Respond(t)
    \/ Refresh(t)
    \/ Send(t)
    \/ Persist(t)
    \/ Dispatch(t)
    \/ HandlerReturn(t)
    \/ WriteResult(t)
    \/ WriteFails(t)
    \/ HandlerThrow(t)
    \/ Settle(t)
    \/ GenerateResults(t)
    \/ ThoughtResults(t)
    \/ RespondResults(t)
    \/ SendResults(t)
    \/ CollaboratorFails(t)

Spec == Init /\ [][Next]_vars

\* The responses of the runs checked for termination: rounds that request
\* an action, with or without a response, and a round that requests none.
InitLive ==
  /\ InitRuntime
  /\ allowed = {"t1"}
  /\ script = { <<Thinking1>>,
                <<Thinking1, ActionA1>>,
                <<Thinking1, ActionB2, Response1>> }
  /\ InitParseOff

\* Every collaborator call eventually returns or fails: a turn that can
\* take a step eventually takes one.
SpecLive == InitLive /\ [][Next]_vars /\ WF_vars(Next)

(***************************************************************************)
(* Specification of queued turns: the caller hands the next inbound        *)
(* message to handleRoomMessage when the previous call has returned; the   *)
(* persistence, the client, the providers' callers and the handlers do not *)
(* throw (the text generation can)                                         *)
(***************************************************************************)

\* The responses the text generation returns in the queued turns.
InitQueued ==
  /\ InitRuntime
  /\ allowed = {"t1"}
  /\ script = { <<Thinking1, Response1>>,
                <<Thinking1, ActionA1>> }
  /\ InitParseOff

\* handleClientMessage: the promise of the previous handleRoomMessage has
\* settled and the next inbound message is handed over.
Admit(t) ==
  /\ t \notin allowed
  /\ \A u \in allowed : pc[u] \in {"done", "rejected"}
  /\ allowed' = allowed \cup {t}
  /\ UNCHANGED <<storeVars, sent, script, db, registeredActions, options,
               memoryManagers, memoryConfig, inventory, listeners,
               subscriptions, emitted, pc, local, histVars, parseVars>>

NextQueued ==
  \E t \in Turns :
    \/ Admit(t)
    \/ ensureConnection(t)
    \/ ensureUserExists(t)
    \/ ensureRoomExists(t)
    \/ ensureParticipantInRoom(t)
    \/ Start(t)
    \/ Compose(t)
    \/ ProviderSettles(t)
    \/ ProvidersSettled(t)
    \/ GenerateChat(t)
    \/ Thought(t)
    \/ Respond(t)
    \/ Refresh(t)
    \/ Send(t)
    \/ Persist(t)
    \/ Dispatch(t)
    \/ HandlerReturn(t)
    \/ WriteResult(t)
    \/ Settle(t)
    \/ GenerateResults(t)
    \/ ThoughtResults(t)
    \/ RespondResults(t)
    \/ SendResults(t)

SpecQueued == InitQueued /\ [][NextQueued]_vars

(***************************************************************************)
(* Specification of ensureConnection: concurrent invocations               *)
(***************************************************************************)

InitConnect ==
  /\ InitRuntime
  /\ allowed = Turns
  /\ script = {}
  /\ InitParseOff

NextConnect ==
  \E t \in Turns :
    \/ ensureConnection(t)
    \/ ensureUserExists(t)
    \/ ensureRoomExists(t)
    \/ ensureParticipantInRoom(t)

SpecConnect == InitConnect /\ [][NextConnect]_vars

(***************************************************************************)
(* Specification of interleaved turns: handleClientMessage is called for   *)
(* the second inbound message while the first turn is in flight; the       *)
(* turns run up to the delivery of the initial round's response            *)
(***************************************************************************)

InitInterleaved ==
  /\ InitRuntime
  /\ allowed = Turns
  /\ script = {<<Thinking1, Response1>>}
  /\ InitParseOff

NextInterleaved ==
  \E t \in Turns :
    \/ ensureConnection(t)
    \/ ensureUserExists(t)
    \/ ensureRoomExists(t)
    \/ ensureParticipantInRoom(t)
    \/ Start(t)
    \/ Compose(t)
    \/ ProviderSettles(t)
    \/ ProvidersSettled(t)
    \/ GenerateChat(t)
    \/ Thought(t)
    \/ Respond(t)
    \/ Refresh(t)
    \/ Send(t)

SpecInterleaved == InitInterleaved /\ [][NextInterleaved]_vars

(***************************************************************************)
(* Specification of a turn of a runtime whose actions share names and      *)
(* compute their schema, with actions registered while the turn runs       *)
(***************************************************************************)

\* The most actions a runtime of these runs holds.
MaxActions == 3

\* A second action of name a: another schema, another handler.
SecondA ==
  [name |-> <<"a">>, enabled |-> TRUE, dynamic |-> FALSE, parameters |-> {1, 2},
   results |-> {9}]

\* An action of name b whose parameters is a function.
ComputedB ==
  [name |-> <<"b">>, enabled |-> FALSE, dynamic |-> TRUE, parameters |-> {2},
   results |-> {8}]

\* The constructor registers options.actions.  The responses of these runs:
\* a call the first action of name a rejects and the second accepts, and a
\* call of the action with the computed schema.
InitRegistered ==
  /\ InitState
  /\ registeredActions \in { <<RuntimeActions[1], ComputedB>>, <<SecondA, ComputedB>> }
  /\ options = [managers |-> <<>>, inventoryProviders |-> <<>>]
  /\ memoryManagers = ElizaRuntime(options).memoryManagers
  /\ memoryConfig = ElizaRuntime(options).memories
  /\ inventory = ElizaRuntime(options).inventory
  /\ listeners = [e \in {"e1", "e2"} |-> <<>>]
  /\ subscriptions = <<>>
  /\ emitted = <<>>
  /\ allowed = {"t1"}
  /\ script = { <<Thinking1, ActionA2>>,
                <<Thinking1, ActionB2, Response1>> }
  /\ InitParseOff

\* registerAction(action): this.actions.push(action).
registerAction(action) ==
  /\ Len(registeredActions) < MaxActions
  /\ registeredActions' = Append(registeredActions, action)
  /\ UNCHANGED <<storeVars, sent, allowed, script, db, options, memoryManagers,
               memoryConfig, inventory, listeners, subscriptions, emitted,
               pc, local, histVars, parseVars>>

NextRegistered ==
  \/ \E action \in {RuntimeActions[1], SecondA} : registerAction(action)
  \/ \E t \in Turns :
       \/ ensureConnection(t)
       \/ ensureUserExists(t)
       \/ ensureRoomExists(t)
       \/ ensureParticipantInRoom(t)
       \/ Start(t)
       \/ Compose(t)
       \/ ProviderSettles(t)
       \/ ProvidersSettled(t)
       \/ GenerateChat(t)
       \/ Thought(t)
       \/ Respond(t)
       \/ Refresh(t)
       \/ Send(t)
       \/ Persist(t)
       \/ Dispatch(t)
       \/ HandlerReturn(t)
       \/ WriteResult(t)
       \/ HandlerThrow(t)
       \/ Settle(t)
       \/ GenerateResults(t)
       \/ ThoughtResults(t)
       \/ RespondResults(t)
       \/ SendResults(t)

SpecRegistered == InitRegistered /\ [][NextRegistered]_vars

(***************************************************************************)
(* Specification of the parser: a response is drawn and parsed             *)
(***************************************************************************)

InitParse ==
  /\ InitRuntime
  /\ allowed = {}
  /\ script = {}
  /\ items \in ItemSeqs(MaxItems)
  /\ phase = "input"
  /\ output = EmptyChatOutput

\* generateOutput line 82: template.parse(response, visitors, output).
ParseResponse ==
  /\ phase = "input"
  /\ output' = parse(RenderItems(items))
  /\ phase' = "parsed"
  /\ UNCHANGED <<memories, nextId, sent, envVars, pc, local, histVars, items>>

SpecParse == InitParse /\ [][ParseResponse]_vars

(***************************************************************************)
(* Specification of the scanner: a response is drawn and scanned, one      *)
(* iteration of the while loop per step                                    *)
(***************************************************************************)

InitScan ==
  /\ InitRuntime
  /\ allowed = {}
  /\ script = {}
  /\ items = <<>>
  /\ phase = "input"
  /\ output = [workingText |-> <<>>, nodes |-> <<>>, stopped |-> FALSE]

\* XMLParser.parse lines 40-42, called with a response: nodes is empty and
\* workingText the trimmed text; the loop has ended at once where that text
\* is empty.
ScanBegin ==
  /\ phase = "input"
  /\ \E response \in ItemSeqs(MaxItems) :
       /\ items' = response
       /\ output' = [workingText |-> Trim(RenderItems(response)), nodes |-> <<>>,
                     stopped |-> FALSE]
  /\ phase' = IF Len(output'.workingText) > 0 THEN "scanning" ELSE "scanned"
  /\ UNCHANGED <<storeVars, sent, envVars, pc, local, histVars>>

\* A faulty variant of ScanIteration: an iteration that does not break
\* leaves workingText as it was.
ScanIterationKeepsText ==
  /\ phase = "scanning"
  /\ LET step == ParseStep(output.workingText, output.nodes)
     IN  /\ output' = [workingText |-> output.workingText, nodes |-> step.nodes,
                       stopped |-> step.stop]
         /\ phase' = IF step.stop THEN "scanned" ELSE "scanning"
  /\ UNCHANGED <<storeVars, sent, envVars, pc, local, histVars, items>>

\* XMLParser.parse lines 44-117: one iteration of the loop, which ends with
\* a break or with workingText empty.
ScanIteration ==
  /\ phase = "scanning"
  /\ LET step == ParseStep(output.workingText, output.nodes)
     IN  /\ output' = [workingText |-> step.workingText, nodes |-> step.nodes,
                       stopped |-> step.stop]
         /\ phase' = IF step.stop \/ Len(step.workingText) = 0
                       THEN "scanned" ELSE "scanning"
  /\ UNCHANGED <<storeVars, sent, envVars, pc, local, histVars, items>>

\* A scan that has begun runs on its own: weak fairness of ScanIteration,
\* WF_vars(ScanIteration), written out with the condition under which an
\* iteration can run, which is that the loop has not ended.
SpecScan ==
  /\ InitScan
  /\ [][ScanBegin \/ ScanIteration]_vars
  /\ ([]<>(phase # "scanning") \/ []<><<ScanIteration>>_vars)

(***************************************************************************)
(* Specification of the runtime object: it is constructed with options     *)
(* that supply memory managers and inventory providers, then listeners     *)
(* are registered and removed and events emitted                           *)
(***************************************************************************)

\* Before new ElizaRuntime(opts): the fields have no value yet.
InitNew ==
  /\ InitState
  /\ registeredActions = RuntimeActions
  /\ allowed = {}
  /\ script = {}
  /\ items = <<>>
  /\ phase = "new"
  /\ output = <<>>
  /\ options = [managers |-> <<>>, inventoryProviders |-> <<>>]
  /\ memoryManagers = AgentRuntime(options).memoryManagers
  /\ memoryConfig = AgentRuntime(options).memoryManagers
  /\ inventory = <<>>
  /\ listeners = [e \in {"e1", "e2"} |-> <<>>]
  /\ subscriptions = <<>>
  /\ emitted = <<>>

\* new ElizaRuntime(opts), with managers for some of the tables and with
\* inventory providers among the options.
Construct ==
  /\ phase = "new"
  /\ \E tables \in UNION {[1..n -> {"actions", "messages", "thoughts"}] :
                             n \in 0..MaxManagers},
        providers \in UNION {[1..n -> {"i1", "i2"}] : n \in 0..MaxProviders} :
       LET opts == [managers |->
                      [k \in 1..Len(tables) |->
                         [tableName |-> tables[k], by |-> "options", k |-> k]],
                    inventoryProviders |-> providers]
       IN  /\ options' = opts
           /\ memoryManagers' = ElizaRuntime(opts).memoryManagers
           /\ memoryConfig' = ElizaRuntime(opts).memories
           /\ inventory' = ElizaRuntime(opts).inventory
  /\ phase' = "constructed"
  /\ UNCHANGED <<storeVars, sent, allowed, script, db, registeredActions,
                 listeners, subscriptions, emitted, pc, local, histVars, items,
                 output>>

SpecRuntime ==
  /\ InitNew
  /\ [][\/ Construct
        \/ \E event \in {"e1", "e2"}, listener \in {"l1", "l2"} : on(event, listener)
        \/ \E k \in 1..MaxSubscriptions : Unsubscribe(k)
        \/ \E event \in {"e1", "e2"} : emit(event)]_vars

(***************************************************************************)
(* Specification of the template: a template and its variables are drawn   *)
(* and rendered                                                            *)
(***************************************************************************)

InitRender ==
  /\ InitRuntime
  /\ allowed = {}
  /\ script = {}
  /\ items \in {[parts |-> p, data |-> d] :
                  p \in PartSeqs(MaxParts)
                         \cup {<<Hello, KeyPart(KeyName), ItemsLabel,
                                  KeyPart(KeyItems)>>},
                  d \in TemplateData}
  /\ phase = "template"
  /\ output = <<>>

\* template(str, data)
Render ==
  /\ phase = "template"
  /\ output' = template(TemplateText(items.parts), items.data)
  /\ phase' = "rendered"
  /\ UNCHANGED <<storeVars, sent, envVars, pc, local, histVars, items>>

SpecRender == InitRender /\ [][Render]_vars

(***************************************************************************)
(* Properties                                                              *)
(***************************************************************************)

\* The positions of the stored action memories that are Calls / Results.
CallPositions(mems) ==
  {k \in 1..Len(mems.actions) : isActionCall(mems.actions[k])}

ResultPositions(mems) ==
  {k \in 1..Len(mems.actions) : isActionResult(mems.actions[k])}

\* The positions of the Result memories that reference the call id.
ResultsOf(mems, id) ==
  {k \in ResultPositions(mems) : mems.actions[k].content.callId = id}

\* The stored action memory of an id.
ActionMemory(mems, id) ==
  mems.actions[CHOOSE k \in 1..Len(mems.actions) : mems.actions[k].id = id]

\* The generation rounds and the dispatch rounds of a turn, in order.
GenRounds(t) == SelectSeq(prompts, LAMBDA g : g.turn = t)
DispatchRounds(t) == SelectSeq(dispatched, LAMBDA d : d.turn = t)

\* The handler invocations of a turn for a call (in a step).
Invocations(inv, t, c) ==
  {k \in 1..Len(inv) : inv[k].turn = t /\ inv[k].callId = c}

InvocationsIn(inv, t, c, step) ==
  {k \in Invocations(inv, t, c) : inv[k].step = step}

\* C1: every Call memory has at most one Result memory whose callId is the
\* call's id, in every reachable state, even when processActions runs in
\* several rounds of one turn with call sets that contain the call.
AtMostOneResultPerCall ==
  \A k \in CallPositions(memories) :
    Cardinality(ResultsOf(memories, memories.actions[k].id)) <= 1

\* C2: one handleRoomMessage turn performs at most 3 (maxSteps) dispatch
\* rounds, whatever the text generation returns and however many actions
\* it requests.
DispatchRoundsBounded ==
  \A t \in Turns : Len(DispatchRounds(t)) <= maxSteps

\* C2 witness: a finished turn in which every generation round requested an
\* action and the third dispatch round has run.
ThreeDispatchRoundsReached ==
  \E t \in Turns :
    /\ pc[t] = "done"
    /\ Len(DispatchRounds(t)) = maxSteps
    /\ \A k \in 1..Len(GenRounds(t)) : Len(GenRounds(t)[k].out.calls) >= 1

\* C3: the calls dispatched in an iteration of the action loop are exactly
\* the calls returned by the immediately preceding generation round, and no
\* call is dispatched in two iterations of one turn.
DispatchesOnlyNewCalls ==
  /\ \A k \in 1..Len(dispatched) :
       [j \in 1..Len(dispatched[k].calls) |->
          [name   |-> ActionMemory(memories, dispatched[k].calls[j]).content.name,
           params |-> ActionMemory(memories, dispatched[k].calls[j]).content.params]]
         = dispatched[k].requested
  /\ \A j, k \in 1..Len(dispatched) :
       j < k /\ dispatched[j].turn = dispatched[k].turn =>
         {dispatched[j].calls[x] : x \in 1..Len(dispatched[j].calls)}
           \cap {dispatched[k].calls[x] : x \in 1..Len(dispatched[k].calls)} = {}

\* The ids of the room's Call memories for which no Result memory with that
\* callId exists.
UnresolvedCalls(mems, roomId) ==
  {mems.actions[k].id : k \in
     {c \in CallPositions(mems) :
        /\ mems.actions[c].roomId = roomId
        /\ ResultsOf(mems, mems.actions[c].id) = {}}}

\* C4: whenever composeState or updateRecentMessageState produces a State,
\* its actions.processing is exactly the set of ids of the room's Call
\* memories that have no Result memory.
ProcessingIsUnresolved ==
  [][\A t \in Turns :
       local'[t].state # local[t].state =>
         local'[t].state.actions.processing
           = UnresolvedCalls(memories', local'[t].state.room.id)]_vars

\* A Result memory of the call that has the call's name and msgId and the
\* given result.
HasResult(mems, call, result) ==
  \E k \in ResultsOf(mems, call.id) :
    /\ mems.actions[k].content.name = call.content.name
    /\ mems.actions[k].content.msgId = call.content.msgId
    /\ mems.actions[k].content.result = result

\* C5 (as claimed): once processActions has returned, every call of the
\* batch whose name matches a registered action has a Result memory with
\* the call's name and msgId, its id as callId and the handler's return
\* value as result, whether the call succeeded or failed.
EveryMatchedCallHasResult ==
  \A t \in Turns :
    pc[t] = "generateResults" =>
      \A j \in 1..Len(local[t].actionCallMemories) :
        LET call == local[t].actionCallMemories[j] IN
        FindAction(call.content.name) # 0 =>
          \E k \in InvocationsIn(invoked, t, call.id, local[t].step) :
            /\ invoked[k].status = "stored"
            /\ HasResult(memories, call, invoked[k].value)

\* C5 (amended): once processActions has returned, every call of the batch
\* whose name matches a registered action and whose params pass the schema
\* had its handler invoked; each invocation that returned and whose Result
\* the store accepted has a Result memory with the call's name and msgId,
\* its id as callId and the returned value as result; an invocation whose
\* promise rejected, like a call rejected by the schema, left no Result
\* memory.
ReturnedCallHasResult ==
  \A t \in Turns :
    pc[t] = "generateResults" =>
      \A j \in 1..Len(local[t].actionCallMemories) :
        LET call == local[t].actionCallMemories[j]
            idx  == FindAction(call.content.name)
            here == InvocationsIn(invoked, t, call.id, local[t].step)
        IN  /\ idx # 0 /\ SchemaAccepts(registeredActions[idx].parameters, call.content.params)
                 => Cardinality(here) = 1
            /\ \A k \in here :
                 /\ invoked[k].status \in {"stored", "rejected"}
                 /\ invoked[k].status = "stored"
                      => HasResult(memories, call, invoked[k].value)
            /\ Cardinality(ResultsOf(memories, call.id))
                 = Cardinality({k \in Invocations(invoked, t, call.id) :
                                  invoked[k].status = "stored"})

\* C5 witness: processActions has returned from a batch in which the Result
\* of one call is stored, the promise of another call rejected and a third
\* call failed its schema.
MixedBatchSettled ==
  \E t \in Turns :
    /\ pc[t] = "generateResults"
    /\ \E j \in 1..Len(local[t].actionCallMemories) :
         \E k \in InvocationsIn(invoked, t, local[t].actionCallMemories[j].id, local[t].step) :
           invoked[k].status = "stored"
    /\ \E j \in 1..Len(local[t].actionCallMemories) :
         \E k \in InvocationsIn(invoked, t, local[t].actionCallMemories[j].id, local[t].step) :
           invoked[k].status = "rejected"
    /\ \E j \in 1..Len(local[t].actionCallMemories) :
         LET call == local[t].actionCallMemories[j] IN
         /\ FindAction(call.content.name) # 0
         /\ ~SchemaAccepts(registeredActions[FindAction(call.content.name)].parameters, call.content.params)

\* The calls of a batch that name no registered action.
UnknownCalls(batch) ==
  {j \in 1..Len(batch) : FindAction(batch[j].content.name) = 0}

\* C6: a Call memory whose name matches no registered action gets no Result
\* memory and no handler invocation, processActions still returns (the turn
\* goes on to the follow-up generation unless the refresh of the state
\* itself fails), and every other call of the batch that names a registered
\* action and passes its schema has its handler invoked in that dispatch.
UnknownActionIsNoOp ==
  [][\A t \in Turns :
       /\ \A j \in UnknownCalls(local'[t].actionCallMemories) :
            LET call == local'[t].actionCallMemories[j] IN
            /\ ResultsOf(memories', call.id) = {}
            /\ Invocations(invoked', t, call.id) = {}
       /\ pc[t] \in {"dispatch", "settle"}
            /\ UnknownCalls(local[t].actionCallMemories) # {}
            => \/ pc'[t] \in {"settle", "generateResults"}
               \/ pc'[t] = "done" /\ local'[t].error = "settle"
                    /\ local[t].pending = {} /\ local[t].writing = {}
       /\ \A d \in 1..Len(dispatched') :
            dispatched'[d].turn = t =>
              \A x \in 1..Len(dispatched'[d].calls) :
                LET call == ActionMemory(memories', dispatched'[d].calls[x])
                    idx  == FindAction(call.content.name)
                IN  idx # 0 /\ SchemaAccepts(registeredActions[idx].parameters, call.content.params)
                      => InvocationsIn(invoked', t, call.id, dispatched'[d].step) # {}
    ]_vars

\* C6 witness: processActions has returned from a batch that holds a call
\* of an unregistered name before a call whose handler returned and whose
\* Result is stored.
UnknownCallInBatchSettled ==
  \E t \in Turns :
    /\ pc[t] = "generateResults"
    /\ \E i, j \in 1..Len(local[t].actionCallMemories) :
         /\ i < j
         /\ i \in UnknownCalls(local[t].actionCallMemories)
         /\ \E k \in InvocationsIn(invoked, t, local[t].actionCallMemories[j].id, local[t].step) :
              /\ invoked[k].status = "stored"
              /\ HasResult(memories, local[t].actionCallMemories[j], invoked[k].value)

IsAction(item) == item.kind = "element" /\ item.tag = ActionTag
IsResponse(item) == item.kind = "element" /\ item.tag = ResponseTag

\* The entry a well-formed <action> / <response> item stands for.
CallOf(item) == [name |-> item.attrValue, params |-> NumVal(item.body, 0)]
ResponseOf(item) == [msgId |-> item.attrValue, content |-> item.body]

RECURSIVE CallsOf(_)
CallsOf(its) ==
  IF its = <<>> THEN <<>>
  ELSE IF IsAction(Head(its)) /\ Head(its).wellFormed
    THEN <<CallOf(Head(its))>> \o CallsOf(Tail(its))
    ELSE CallsOf(Tail(its))

RECURSIVE ResponsesOf(_)
ResponsesOf(its) ==
  IF its = <<>> THEN <<>>
  ELSE IF IsResponse(Head(its))
    THEN <<ResponseOf(Head(its))>> \o ResponsesOf(Tail(its))
    ELSE ResponsesOf(Tail(its))

\* C7: a response with one well-formed <action> element and one <action>
\* element whose body is invalid JSON, in either order, parses to exactly
\* one action call, the well-formed one.
MalformedActionSkipped ==
  phase = "parsed"
    /\ Cardinality({k \in 1..Len(items) : IsAction(items[k]) /\ items[k].wellFormed}) = 1
    /\ Cardinality({k \in 1..Len(items) : IsAction(items[k]) /\ ~items[k].wellFormed}) = 1
    => output.calls = CallsOf(items)

\* C8: a response made of well-formed elements parses to one call per
\* <action> element and one response per <response> element, in document
\* order, each with the attributes and content of its own element.
WellFormedElementsParsedInOrder ==
  phase = "parsed"
    /\ (\A k \in 1..Len(items) : items[k].kind = "element" /\ items[k].wellFormed)
    => /\ output.calls = CallsOf(items)
       /\ output.responses = ResponsesOf(items)

\* The turn of the end-to-end scenario: the initial round returned one
\* thinking entry, no response and one call of a registered action, whose
\* handler returned; the follow-up round returned one thinking entry, one
\* response and no call; no persistence or client call of the turn failed.
ScenarioTurn(t) ==
  /\ pc[t] = "done"
  /\ local[t].error = "none"
  /\ Len(GenRounds(t)) = 2
  /\ LET g1 == GenRounds(t)[1]
         g2 == GenRounds(t)[2]
     IN  /\ ~g1.failed /\ ~g2.failed
         /\ Len(g1.out.thinking) = 1 /\ Len(g1.out.responses) = 0
         /\ Len(g1.out.calls) = 1 /\ FindAction(g1.out.calls[1].name) # 0
         /\ Len(g2.out.thinking) = 1 /\ Len(g2.out.responses) = 1
         /\ Len(g2.out.calls) = 0
  /\ \E k \in 1..Len(invoked) : invoked[k].turn = t /\ invoked[k].status = "stored"

\* C9: in the scenario turn exactly one Result memory is recorded and it
\* carries the handler's return value, exactly one outbound Message is
\* delivered to the client, and exactly two Thought memories exist for the
\* triggering message id.
EndToEndScenario ==
  \A t \in Turns :
    ScenarioTurn(t) =>
      LET msgId == local[t].message.id
          rs == {k \in ResultPositions(memories) : memories.actions[k].content.msgId = msgId}
      IN  /\ Cardinality(rs) = 1
          /\ \A k \in rs :
               \E e \in 1..Len(invoked) :
                 /\ invoked[e].turn = t
                 /\ invoked[e].status = "stored"
                 /\ invoked[e].callId = memories.actions[k].content.callId
                 /\ invoked[e].value = memories.actions[k].content.result
          /\ Len(sent) = 1
          /\ sent[1].userId = AgentId
          /\ sent[1].content.text = GenRounds(t)[2].out.responses[1].content
          /\ Cardinality({k \in 1..Len(memories.thoughts) :
                            memories.thoughts[k].content.msgId = msgId}) = 2

\* C9 witness: the scenario turn has run to its end.
ScenarioTurnReached == \E t \in Turns : ScenarioTurn(t)

RECURSIVE RequestedCalls(_, _)
RequestedCalls(rounds, n) ==
  IF n = 0 THEN 0 ELSE Len(rounds[n].out.calls) + RequestedCalls(rounds, n - 1)

\* The positions of the Call memories created for the turn's message.
CallsOfTurn(t) ==
  {k \in CallPositions(memories) :
     memories.actions[k].content.msgId = local[t].message.id}

\* C10: when the step cap is reached the turn is over: the calls of the last
\* follow-up round are dropped, so the Call memories of the turn are those
\* requested by the rounds before it, handlers ran for stored Call memories
\* only, and no generation round follows the last follow-up round.
StepCapDropsCalls ==
  \A t \in Turns :
    local[t].step = maxSteps =>
      /\ pc[t] = "done"
      /\ Len(GenRounds(t)) = maxSteps + 1
      /\ Len(DispatchRounds(t)) = maxSteps
      /\ Cardinality(CallsOfTurn(t)) = RequestedCalls(GenRounds(t), maxSteps)
      /\ \A e \in 1..Len(invoked) :
           invoked[e].turn = t =>
             \E k \in CallsOfTurn(t) : memories.actions[k].id = invoked[e].callId

\* C10 witness: the step cap is reached and the last follow-up round had
\* requested an action.
StepCapReachedWithCalls ==
  \E t \in Turns :
    /\ local[t].step = maxSteps
    /\ pc[t] = "done"
    /\ Len(local[t].out.calls) > 0

\* The outbound Message memories: the messages the agent has stored.
AgentMessages == SelectSeq(memories.messages, LAMBDA m : m.userId = AgentId)

\* The turn was not ended by a failing persistence or client call.
NoCollaboratorFailure(t) ==
  local[t].error \in {"none", "thinking", "generate", "generateResults"}

\* The generation rounds of a turn that yielded at least one response /
\* at least one thinking entry and one response.
RespondingRounds(t) ==
  SelectSeq(GenRounds(t), LAMBDA g : Len(g.out.responses) > 0)

ThinkingRespondingRounds(t) ==
  SelectSeq(GenRounds(t), LAMBDA g : Len(g.out.responses) > 0 /\ Len(g.out.thinking) > 0)

FollowUpPromptHasTriggeringMessage ==
  \A k \in 1..Len(prompts) :
    prompts[k].kind = "results" =>
      prompts[k].msg = local[prompts[k].turn].message

\* The messages of the room of memory m that were stored before m, oldest
\* first.
EarlierInRoom(m) ==
  SelectSeq(memories.messages, LAMBDA x : x.roomId = m.roomId /\ x.id < m.id)

FailedInBatch(t) ==
  {j \in 1..Len(local[t].actionCallMemories) :
     LET call == local[t].actionCallMemories[j]
         idx  == FindAction(call.content.name)
     IN  /\ idx # 0
         /\ \/ ~SchemaAccepts(registeredActions[idx].parameters, call.content.params)
            \/ \E k \in InvocationsIn(invoked, t, call.id, local[t].step) :
                 invoked[k].status = "rejected"}

\* C14: when processActions ends for a batch in which a call failed its
\* schema validation or its handler, every other call of the batch that
\* names a registered action and passes its schema has had its handler
\* invoked once in that dispatch and its promise settled, with its Result
\* memory recorded when it was fulfilled, and processActions returns
\* (it rejects only when the closing refresh of the state fails).
BatchFailureIsolated ==
  [][\A t \in Turns :
       pc[t] = "settle" /\ pc'[t] # "settle" /\ FailedInBatch(t) # {} =>
         /\ \/ pc'[t] = "generateResults"
            \/ pc'[t] = "done" /\ local'[t].error = "settle"
         /\ \A j \in 1..Len(local[t].actionCallMemories) \ FailedInBatch(t) :
              LET call == local[t].actionCallMemories[j]
                  idx  == FindAction(call.content.name)
                  here == InvocationsIn(invoked, t, call.id, local[t].step)
              IN  idx # 0 =>
                    /\ Cardinality(here) = 1
                    /\ \A k \in here :
                         /\ invoked[k].status = "stored"
                         /\ HasResult(memories, call, invoked[k].value)
    ]_vars

\* C14 witness: processActions has returned from a batch in which a call
\* that failed its schema precedes a call whose Result was recorded in this
\* dispatch.
FailureBeforeRecordedResult ==
  \E t \in Turns :
    /\ pc[t] = "generateResults"
    /\ \E i, j \in 1..Len(local[t].actionCallMemories) :
         LET ci == local[t].actionCallMemories[i]
             cj == local[t].actionCallMemories[j]
         IN  /\ i < j
             /\ FindAction(ci.content.name) # 0
             /\ ~SchemaAccepts(registeredActions[FindAction(ci.content.name)].parameters, ci.content.params)
             /\ \E k \in InvocationsIn(invoked, t, cj.id, local[t].step) :
                  invoked[k].status = "stored"

\* The handler invocations of turn t in a step.
InvocationsOfStep(inv, t, step) ==
  {k \in 1..Len(inv) : inv[k].turn = t /\ inv[k].step = step}

\* C15: processActions re-reads the room state only when every call it
\* dispatched has settled, whatever the order in which the calls ran, and
\* the State it returns has in actions.results a Result memory for every
\* call of the batch whose promise was fulfilled.
RefreshAfterAllSettled ==
  [][\A t \in Turns :
       pc[t] = "settle" /\ pc'[t] = "generateResults" =>
         /\ \A k \in InvocationsOfStep(invoked, t, local[t].step) :
              invoked[k].status \in {"stored", "rejected"}
         /\ \A k \in InvocationsOfStep(invoked, t, local[t].step) :
              invoked[k].status = "stored" =>
                \E j \in 1..Len(local'[t].state.actions.results) :
                  LET r == local'[t].state.actions.results[j]
                  IN  /\ r.content.callId = invoked[k].callId
                      /\ r.content.result = invoked[k].value
    ]_vars

\* C15 witness: processActions has returned from a dispatch in which two
\* calls were fulfilled, and the State holds a Result for each of them.
TwoResultsInReturnedState ==
  \E t \in Turns :
    /\ pc[t] = "generateResults"
    /\ \E k1, k2 \in InvocationsOfStep(invoked, t, local[t].step) :
         /\ k1 # k2
         /\ invoked[k1].status = "stored"
         /\ invoked[k2].status = "stored"
         /\ \A k \in {k1, k2} :
              \E j \in 1..Len(local[t].state.actions.results) :
                local[t].state.actions.results[j].content.callId = invoked[k].callId

\* The text generation of a round of turn t has failed.
GenerationFailed(t) == local[t].error \in {"generate", "generateResults"}

\* C16: a failing text-generation call ends the turn in that round:
\* handleRoomMessage returns instead of throwing, the failing step and every
\* later step leave the memories and the sent messages as they are, no
\* further generation is attempted, and after a failure of the initial round
\* the turn has no outbound message, no Thought and no Call memory.
GenerationFailureEndsTurn ==
  [][\A t \in Turns :
       /\ pc[t] \in {"generate", "generateResults"} /\ GenerationFailed(t)' =>
            /\ pc'[t] = "done"
            /\ local'[t].error = pc[t]
            /\ memories' = memories
            /\ sent' = sent
       /\ GenerationFailed(t) =>
            /\ pc[t] = "done" /\ pc'[t] = "done"
            /\ local'[t] = local[t]
            /\ memories' = memories
            /\ sent' = sent
            /\ prompts' = prompts
       /\ local'[t].error = "generate" =>
            /\ \A k \in 1..Len(memories'.messages) :
                 memories'.messages[k].roomId = local'[t].message.roomId =>
                   memories'.messages[k].userId # AgentId
            /\ \A k \in 1..Len(memories'.thoughts) :
                 memories'.thoughts[k].content.msgId # local'[t].message.id
            /\ \A k \in 1..Len(memories'.actions) :
                 memories'.actions[k].content.msgId # local'[t].message.id
            /\ \A k \in 1..Len(sent') : sent'[k].roomId # local'[t].message.roomId
    ]_vars

\* C16 witness: the text generation of a follow-up round failed after the
\* turn had delivered a response and recorded a Result, and the turn is
\* over.
FollowUpGenerationFailed ==
  \E t \in Turns :
    /\ pc[t] = "done"
    /\ local[t].error = "generateResults"
    /\ \E k \in 1..Len(sent) : sent[k].roomId = local[t].message.roomId
    /\ \E k \in 1..Len(memories.actions) : isActionResult(memories.actions[k])

\* C17: a generation round that returns no thinking entry ends the turn at
\* that round: handleRoomMessage returns instead of throwing, and neither
\* that step nor any later step writes a memory, sends a message or
\* dispatches a call, so the round's responses and calls are dropped.
NoThinkingEndsTurn ==
  [][\A t \in Turns :
       /\ /\ pc[t] \in {"thought", "thoughtResults"}
          /\ local[t].out.thinking = <<>>
          /\ pc'[t] # pc[t]
          => /\ pc'[t] = "done"
             /\ local'[t].error = "thinking"
             /\ memories' = memories
             /\ sent' = sent
       /\ local[t].error = "thinking" =>
            /\ pc[t] = "done" /\ pc'[t] = "done"
            /\ local'[t] = local[t]
            /\ memories' = memories
            /\ sent' = sent
            /\ dispatched' = dispatched
            /\ invoked' = invoked
            /\ prompts' = prompts
    ]_vars

\* C17 witness: a turn ended at a round that returned a response and an
\* action call but no thinking entry.
RoundWithoutThinkingDropped ==
  \E t \in Turns :
    /\ pc[t] = "done"
    /\ local[t].error = "thinking"
    /\ Len(local[t].out.responses) > 0
    /\ Len(local[t].out.calls) > 0

\* C18: the initial generation round of a turn is entered only from the
\* wait for the providers and only in a state where the get of every
\* registered provider has settled, and when the wait ends the turn goes on
\* to the initial generation round whether or not a get was rejected.
GenerationAfterProvidersSettled ==
  [][\A t \in Turns :
       /\ pc'[t] = "generate" /\ pc[t] # "generate" => pc[t] = "providers"
       /\ pc[t] = "providers" /\ pc'[t] # "providers" =>
            /\ Len(local[t].providerPromise) = Len(RuntimeProviders)
            /\ \A p \in 1..Len(RuntimeProviders) :
                 local[t].providerPromise[p] \in {"fulfilled", "rejected"}
            /\ pc'[t] = "generate"
       /\ pc[t] \in {"idle", "connect", "link", "start", "compose", "providers"} =>
            \A k \in 1..Len(prompts') : prompts'[k].turn # t
    ]_vars

\* C18 witness: the get of every provider has settled, the first one
\* rejected and the others fulfilled, and the turn is about to start its
\* initial generation round.
ProvidersSettledWithRejection ==
  \E t \in Turns :
    /\ pc[t] = "providers"
    /\ local[t].providerPromise[1] = "rejected"
    /\ \A p \in 2..Len(RuntimeProviders) : local[t].providerPromise[p] = "fulfilled"

\* C19: over the invocations of ensureConnection for one user, agent and
\* room, interleaved invocations included, createAccount is called at most
\* once for each account, createRoom at most once for the room and
\* addParticipant at most once for each participant link.
CreatedAtMostOnce ==
  /\ \A a \in DOMAIN db.accounts : db.accounts[a] <= 1
  /\ \A r \in DOMAIN db.rooms : db.rooms[r] <= 1
  /\ \A l \in DOMAIN db.participants : db.participants[l] <= 1

\* Every memory of the sequence is a memory of the table with the roomId.
FromRoom(seq, table, roomId) ==
  \A k \in 1..Len(seq) :
    /\ seq[k].roomId = roomId
    /\ \E j \in 1..Len(table) : table[j] = seq[k]

\* C20: every memory written by a step of a turn (inbound message, Thought,
\* outbound message, Call, Result) has the roomId of the turn's inbound
\* message, and every State a turn composes or refreshes has that room id
\* and holds only memories of the store that have that roomId.
TurnStaysInItsRoom ==
  [][\A t \in Turns :
       pc'[t] # pc[t] \/ local'[t] # local[t] =>
         /\ \A table \in {"messages", "thoughts", "actions"} :
              \A k \in (Len(memories[table]) + 1)..Len(memories'[table]) :
                memories'[table][k].roomId = local'[t].message.roomId
         /\ local'[t].state # local[t].state =>
              LET room == local'[t].message.roomId
                  st   == local'[t].state
              IN  /\ st.room.id = room
                  /\ FromRoom(st.messages, memories'.messages, room)
                  /\ FromRoom(st.thoughts, memories'.thoughts, room)
                  /\ FromRoom(st.actions.calls, memories'.actions, room)
                  /\ FromRoom(st.actions.results, memories'.actions, room)
    ]_vars

\* C20 witness: a turn has its State refreshed after a dispatch, with a
\* Result of its own room in it, while the store also holds a message, a
\* Thought and a Result of another room.
StateRefreshedBesideOtherRoom ==
  \E t \in Turns :
    /\ pc[t] = "generateResults"
    /\ local[t].state.actions.results # <<>>
    /\ \E k \in 1..Len(memories.messages) :
         memories.messages[k].roomId # local[t].message.roomId
    /\ \E k \in 1..Len(memories.thoughts) :
         memories.thoughts[k].roomId # local[t].message.roomId
    /\ \E k \in 1..Len(memories.actions) :
         /\ isActionResult(memories.actions[k])
         /\ memories.actions[k].roomId # local[t].message.roomId

\* The Thought memories written for the inbound message of turn t, oldest
\* first.
ThoughtsOf(t) ==
  SelectSeq(memories.thoughts, LAMBDA m : m.content.msgId = local[t].message.id)

\* The dispatch rounds of turn t whose processActions has returned.
CompletedDispatchRounds(t) ==
  Len(DispatchRounds(t))
    - (IF pc[t] \in {"dispatch", "settle"} \/ local[t].error = "settle" THEN 1 ELSE 0)

\* The k-th Thought of turn t is the Thought of its k-th generation round.
ThoughtOfRound(t, k) ==
  /\ ~GenRounds(t)[k].failed
  /\ GenRounds(t)[k].out.thinking # <<>>
  /\ ThoughtsOf(t)[k].content.text = GenRounds(t)[k].out.thinking[1].content
  /\ ThoughtsOf(t)[k].userId = AgentId

RECURSIVE ClaimedText(_)
ClaimedText(v) ==
  IF v.type = "string" THEN v.str
  ELSE IF v.type = "array"
    THEN Join([k \in 1..Len(v.elems) |-> ClaimedText(v.elems[k])], <<"\n">>)
  ELSE JSONStringify(v).text

\* The rendering the claim gives a template: every {{key}} part is replaced
\* by the text of the variable of that key, by the empty text when the
\* variables have no such key.
RECURSIVE ClaimedRender(_, _)
ClaimedRender(parts, data) ==
  IF parts = <<>> THEN <<>>
  ELSE (IF Head(parts).kind = "key"
          THEN IF Head(parts).text \in DOMAIN data
                 THEN ClaimedText(data[Head(parts).text])
                 ELSE <<>>
          ELSE Head(parts).text)
       \o ClaimedRender(Tail(parts), data)

\* C22: the rendering of a template is the template with every {{key}}
\* replaced by the text of the variable (a sequence joined by newlines, a
\* value that is not text as its JSON serialization) and by the empty text
\* when the key is missing from the variables.
RenderReplacesEveryKey ==
  phase = "rendered" => output = ClaimedRender(items.parts, items.data)

\* The elements of a response that have a registered visitor.
IsKnown(item) ==
  item.kind = "element" /\ item.tag \in {ActionTag, ThinkingTag, ResponseTag}

KnownItems(its) == SelectSeq(its, IsKnown)

\* C23: elements with unknown tag names and free text outside elements add
\* nothing to the output of parse and do not change what is extracted from
\* the known elements: the output of a response made of elements and free
\* text is that of the response without them.
UnknownAndTextIgnored ==
  (phase = "parsed" /\ \A k \in 1..Len(items) : items[k].kind \in {"element", "text"})
    => output = parse(RenderItems(KnownItems(items)))

\* The table after the step is the table before it with memories appended.
Extends(after, before) ==
  /\ Len(after) >= Len(before)
  /\ SubSeq(after, 1, Len(before)) = before

\* C24: no step of a turn changes or removes a stored memory, every table
\* only grows at its end; the step that records the outcome of a call
\* appends one Result memory with the call's id as callId and leaves the
\* Call memory as it was.
MemoriesAppendOnly ==
  [][/\ \A table \in {"messages", "thoughts", "actions"} :
          Extends(memories'[table], memories[table])
     /\ \A e \in 1..Len(invoked) :
          invoked[e].status # "stored" /\ invoked'[e].status = "stored" =>
            /\ Len(memories'.actions) = Len(memories.actions) + 1
            /\ isActionResult(memories'.actions[Len(memories'.actions)])
            /\ memories'.actions[Len(memories'.actions)].content.callId = invoked[e].callId
            /\ \E k \in CallPositions(memories) :
                 /\ memories.actions[k].id = invoked[e].callId
                 /\ memories'.actions[k] = memories.actions[k]
    ]_vars

\* C24 witness: the outcome of a call has been recorded and its Call memory
\* is in the store next to the Result memory.
CallKeptBesideResult ==
  \E k \in CallPositions(memories) :
    /\ ResultsOf(memories, memories.actions[k].id) # {}
    /\ \E e \in 1..Len(invoked) :
         /\ invoked[e].callId = memories.actions[k].id
         /\ invoked[e].status = "stored"

\* Turn t takes the step in which updateRecentMessageState returns: the
\* refresh after the outbound message or the end of processActions.
StateRefreshed(t) ==
  \/ pc[t] = "refresh" /\ pc'[t] = "send"
  \/ pc[t] = "settle" /\ pc'[t] = "generateResults"

\* C25: the state updateRecentMessageState returns has the messages, the
\* actions and the thoughts of a query of the room state.room.id made at
\* that step, and the agent, actors, room and inventory of the state it was
\* given; the actors are not read from the database again.
RefreshKeepsActorData ==
  [][\A t \in Turns :
       StateRefreshed(t) =>
         LET given == local[t].state
             fresh == local'[t].state
             InRoom(m) == m.roomId = given.room.id
         IN  /\ fresh.messages = Reverse(SelectSeq(memories.messages, InRoom))
             /\ fresh.thoughts = Reverse(SelectSeq(memories.thoughts, InRoom))
             /\ fresh.actions = getRoomState(memories, given.room.id).actions
             /\ fresh.agent = given.agent
             /\ fresh.actors = given.actors
             /\ fresh.room = given.room
             /\ fresh.inventory = given.inventory
             /\ DOMAIN fresh = DOMAIN given
    ]_vars

\* C25 witness: processActions has returned a refreshed state that holds
\* the outbound message and a Result written since the state was composed,
\* with the agent and the actors that composeState had put in it.
RefreshedStateWithActors ==
  \E t \in Turns :
    /\ pc[t] = "generateResults"
    /\ local[t].state.actions.results # <<>>
    /\ Len(local[t].state.messages) >= 2
    /\ local[t].state.agent = AgentId
    /\ local[t].state.actors = {AgentId, UserId}

\* C26: every invocation of handleRoomMessage that the environment starts
\* eventually completes, by returning or by rejecting, and it never makes
\* more than maxSteps + 1 generation rounds.
TurnEventuallyCompletes ==
  /\ [](\A t \in Turns : Len(GenRounds(t)) <= maxSteps + 1)
  /\ \A t \in Turns : (t \in allowed) ~> (pc[t] \in {"done", "rejected"})

\* C26 witness: a turn has completed without a failure after four
\* generation rounds that each requested an action.
CompletedAfterFourRounds ==
  \E t \in Turns :
    /\ pc[t] = "done"
    /\ local[t].error = "none"
    /\ Len(GenRounds(t)) = maxSteps + 1
    /\ \A k \in 1..Len(GenRounds(t)) : Len(GenRounds(t)[k].out.calls) >= 1

\* The message stored last in the room.
NewestInRoom(mems, roomId) ==
  LET inRoom == SelectSeq(mems.messages, LAMBDA m : m.roomId = roomId)
  IN  inRoom[Len(inRoom)]

\* C27: the newest message of the state a turn composes is the message
\* stored last in the room at that step, whichever turn recorded it, and
\* the initial generation round is given the newest message of that state;
\* nothing orders the steps of two turns of one room.
InitialRoundGetsNewestOfRoom ==
  [][\A t \in Turns :
       /\ pc[t] = "compose" /\ pc'[t] = "providers" =>
            local'[t].state.messages[1] = NewestInRoom(memories, local[t].message.roomId)
       /\ pc[t] = "generate" /\ pc'[t] = "thought" =>
            /\ Len(prompts') = Len(prompts) + 1
            /\ prompts'[Len(prompts')].turn = t
            /\ prompts'[Len(prompts')].msg = local[t].state.messages[1]
    ]_vars

\* C27 witness: the initial generation round of a turn was given, as the
\* newest message, the inbound message of the other turn of its room.
OtherTurnsInboundIsNewest ==
  \E k \in 1..Len(prompts) :
    \E u \in Turns \ {prompts[k].turn} :
      /\ prompts[k].kind = "chat"
      /\ prompts[k].msg = local[u].message
      /\ prompts[k].msg.id # local[prompts[k].turn].message.id
      /\ local[u].message.roomId = local[prompts[k].turn].message.roomId
      /\ local[u].message.userId = UserId

\* The ids of the calls of a dispatch round.
CallIds(round) == {round.calls[j] : j \in 1..Len(round.calls)}

\* The ids of the Call memories persisted in the loop iteration of the k-th
\* dispatch round of turn t: those that were not in the batch before.
PersistedIn(t, k) ==
  CallIds(DispatchRounds(t)[k])
    \ (IF k = 1 THEN {} ELSE CallIds(DispatchRounds(t)[k - 1]))

\* The handler of the call was invoked in the k-th dispatch round of turn t.
InvokedIn(t, id, k) ==
  \E e \in 1..Len(invoked) :
    /\ invoked[e].turn = t
    /\ invoked[e].callId = id
    /\ invoked[e].step = DispatchRounds(t)[k].step

\* A handler is invoked only for a call whose Call memory is in the store
\* before the step that invokes it.
CallPersistedBeforeInvoked ==
  [][\A e \in (Len(invoked) + 1)..Len(invoked') :
       \E k \in CallPositions(memories) :
         memories.actions[k].id = invoked'[e].callId]_vars

\* C28 (as claimed): the Call memory of a call is persisted before its
\* handler is invoked, and once a turn is over every Call memory it has
\* persisted that names a registered action has had its handler invoked in
\* the loop iteration that persisted it.
EveryPersistedCallInvoked ==
  /\ CallPersistedBeforeInvoked
  /\ [](\A t \in Turns :
          pc[t] = "done" =>
            \A c \in CallsOfTurn(t) :
              FindAction(memories.actions[c].content.name) # 0 =>
                \E k \in 1..Len(DispatchRounds(t)) :
                  /\ memories.actions[c].id \in PersistedIn(t, k)
                  /\ InvokedIn(t, memories.actions[c].id, k))

\* C28 (amended): the Call memory of a call is persisted before its handler
\* is invoked, and every Call memory persisted in a loop iteration that
\* reaches its dispatch, names a registered action and has parameters that
\* pass the action's schema has its handler invoked in that same iteration.
EveryValidPersistedCallInvoked ==
  /\ CallPersistedBeforeInvoked
  /\ [](\A t \in Turns :
          \A k \in 1..Len(DispatchRounds(t)) :
            \A id \in PersistedIn(t, k) :
              LET call == ActionMemory(memories, id)
                  idx  == FindAction(call.content.name)
              IN  idx # 0 /\ SchemaAccepts(registeredActions[idx].parameters, call.content.params)
                    => InvokedIn(t, id, k))

\* C28 witness: a Call memory persisted in the second iteration of the loop
\* has had its handler invoked in that iteration, in a batch that also
\* holds the call of the first iteration.
CallInvokedInSecondIteration ==
  \E t \in Turns :
    /\ Len(DispatchRounds(t)) >= 2
    /\ PersistedIn(t, 1) # {}
    /\ \E c \in PersistedIn(t, 2) : InvokedIn(t, c, 2)

(***************************************************************************)
(* Schema validation at dispatch                                           *)
(***************************************************************************)

\* The values that pass the schema of the action when it is dispatched for
\* the message in the state: the static schema, or the one its function
\* computes.
PassingAt(action, message, state) ==
  IF action.dynamic THEN ComputedParameters(action, message, state)
  ELSE action.parameters

\* Every handler invocation a step starts has parameters that pass the
\* schema of its action as of that step.
InvokedWithValidParams ==
  [][\A e \in (Len(invoked) + 1)..Len(invoked') :
       LET i == invoked'[e] IN
       i.params \in PassingAt(registeredActions[i.action], local[i.turn].message,
                              local[i.turn].state)]_vars

\* A dispatch starts no handler for a call of its batch whose parameters
\* fail the schema of its action as of that dispatch.
InvalidNotInvoked ==
  [][\A t \in Turns :
       (pc[t] = "dispatch" /\ pc'[t] = "settle") =>
         \A k \in 1..Len(local[t].actionCallMemories) :
           LET call == local[t].actionCallMemories[k]
               idx  == FindAction(call.content.name)
           IN  (idx # 0 /\ call.content.params \notin
                  PassingAt(registeredActions[idx], local[t].message, local[t].state))
                 => \A e \in (Len(invoked) + 1)..Len(invoked') :
                      invoked'[e].callId # call.id]_vars

\* The handler invocations of the call whose Result has been stored.
StoredInvocationsOf(c) ==
  {e \in 1..Len(invoked) : invoked[e].callId = c /\ invoked[e].status = "stored"}

\* C29: a handler is invoked only with parameters that passed the schema of
\* its action, static or computed from the message and the state at
\* dispatch; a call that fails validation starts no handler, and a call has
\* exactly one Result memory per handler invocation that returned and was
\* recorded, so none for a dispatch that failed validation.
ValidatedBeforeInvoked ==
  /\ InvokedWithValidParams
  /\ InvalidNotInvoked
  /\ [](\A c \in 1..nextId :
          Cardinality(ResultsOf(memories, c)) = Cardinality(StoredInvocationsOf(c)))

\* C29 witness: a call of the action with the computed schema was invoked
\* in one dispatch round and has its Result, was in the batch of the next
\* round, where the schema computed from the refreshed state rejected it,
\* and has that one Result only; the same batch holds a call the static
\* schema rejected.
ComputedSchemaRejectedSecondDispatch ==
  \E t \in Turns :
    /\ pc[t] = "done"
    /\ Len(DispatchRounds(t)) >= 2
    /\ \E c \in CallIds(DispatchRounds(t)[1]) :
         /\ InvokedIn(t, c, 1)
         /\ ~InvokedIn(t, c, 2)
         /\ Cardinality(ResultsOf(memories, c)) = 1
         /\ registeredActions[FindAction(CallMemory(t, c).content.name)].dynamic
    /\ \E c \in PersistedIn(t, 2) :
         /\ FindAction(CallMemory(t, c).content.name) # 0
         /\ \A k \in 1..Len(DispatchRounds(t)) : ~InvokedIn(t, c, k)

(***************************************************************************)
(* Actions that share a name                                               *)
(***************************************************************************)

\* Registration appends: the actions registered before stay, in order.
RegistrationAppends ==
  [][/\ Len(registeredActions') >= Len(registeredActions)
     /\ \A i \in 1..Len(registeredActions) :
          registeredActions'[i] = registeredActions[i]]_vars

\* The positions of the registered actions of the name.
RegisteredAs(name) ==
  {i \in 1..Len(registeredActions) : registeredActions[i].name = name}

\* C30: registration keeps every action, those that share a name included,
\* in registration order, and every handler a dispatch runs is that of the
\* first registered action of the call's name: no action of that name is
\* registered before it, and the value recorded for the call is one its
\* handler returns.
DispatchRunsFirstRegistered ==
  /\ RegistrationAppends
  /\ [](\A e \in 1..Len(invoked) :
          LET i == invoked[e] IN
          /\ i.action \in RegisteredAs(ActionMemory(memories, i.callId).content.name)
          /\ \A j \in RegisteredAs(registeredActions[i.action].name) : i.action <= j
          /\ i.status = "stored" => i.value \in registeredActions[i.action].results)

\* C30 witness: a call was dispatched when two different actions of its
\* name were registered, and the Result of the first one's handler is
\* stored.
SharedNameDispatched ==
  \E e \in 1..Len(invoked) :
    /\ invoked[e].status = "stored"
    /\ \E d \in 1..Len(dispatched) :
         /\ dispatched[d].turn = invoked[e].turn
         /\ dispatched[d].step = invoked[e].step
         /\ \E j \in RegisteredAs(registeredActions[invoked[e].action].name) :
              /\ j > invoked[e].action
              /\ j <= dispatched[d].registered
              /\ registeredActions[j] # registeredActions[invoked[e].action]

(***************************************************************************)
(* Self-closing elements                                                   *)
(***************************************************************************)

\* The entry the response visitor adds for a self-closing element: empty
\* content and the attributes of the tag.
ClosedEntry(item) ==
  [msgId |-> IF item.attrName = MsgIdAttr THEN item.attrValue ELSE Undefined,
   content |-> <<>>]

\* C31: a response that begins with a self-closing element of a tag that
\* has a visitor: the visitor gets the element with empty content and its
\* attributes, and the scan goes on with the text behind it, so the output
\* is that entry followed by the output of the rest of the response.
SelfClosingDelivered ==
  (phase = "parsed" /\ items # <<>> /\ Head(items).kind = "closed") =>
    LET rest == parse(RenderItems(Tail(items))) IN
    /\ output.responses = <<ClosedEntry(Head(items))>> \o rest.responses
    /\ output.calls = rest.calls
    /\ output.thinking = rest.thinking

\* The same for the self-closing elements whose tag has a space before the
\* slash.
SpacedSelfClosingDelivered ==
  (phase = "parsed" /\ items # <<>> /\ Head(items).kind = "closed"
     /\ Head(Head(items).body) = " ") =>
    LET rest == parse(RenderItems(Tail(items))) IN
    /\ output.responses = <<ClosedEntry(Head(items))>> \o rest.responses
    /\ output.calls = rest.calls
    /\ output.thinking = rest.thinking

\* The scan goes on behind a self-closing element written without a space,
\* which no visitor gets.
BareSelfClosingPassedOver ==
  (phase = "parsed" /\ items # <<>> /\ Head(items).kind = "closed"
     /\ Head(Head(items).body) = "/") =>
    output = parse(RenderItems(Tail(items)))

(***************************************************************************)
(* Tags the scanner cannot close                                           *)
(***************************************************************************)

\* The scanner gets to item k of the response: the items before it are
\* free text, self-closing elements and elements, and no element before it
\* has a tag that a later element has too, so each is closed by its own
\* close tag.
ScanReaches(its, k) ==
  \A i \in 1..(k - 1) :
    /\ its[i].kind \in {"text", "closed", "element"}
    /\ its[i].kind = "element" =>
         \A j \in (i + 1)..Len(its) : its[j].kind = "element" => its[j].tag # its[i].tag

\* Item k of the response is an opening tag with no matching close tag
\* behind it, or a < with no > behind it.
Unclosable(its, k) ==
  \/ /\ its[k].kind = "open"
     /\ \A j \in (k + 1)..Len(its) : ~(its[j].kind = "element" /\ its[j].tag = its[k].tag)
  \/ /\ its[k].kind = "unfinished"
     /\ \A j \in (k + 1)..Len(its) : its[j].kind \in {"text", "unfinished"}

\* C33: when the scanner gets to an opening tag with no matching close tag,
\* or to a < with no following >, it stops without an error: the output is
\* the output of the response up to that tag, with what the elements before
\* it added and nothing of what follows.
ScanStopsAtUnclosedTag ==
  phase = "parsed" =>
    \A k \in 1..Len(items) :
      (ScanReaches(items, k) /\ Unclosable(items, k))
        => output = parse(RenderItems(SubSeq(items, 1, k - 1)))

\* C33 witness: a response with an element, then a tag the scanner cannot
\* close, then another element with a visitor: the first element is in the
\* output and the last is not.
ElementsBeforeAndAfterUnclosedTag ==
  /\ phase = "parsed"
  /\ Len(items) = 3
  /\ ScanReaches(items, 2) /\ Unclosable(items, 2)
  /\ IsKnown(items[1]) /\ items[1].wellFormed
  /\ IsKnown(items[3]) /\ items[3].wellFormed
  /\ Len(output.calls) + Len(output.thinking) + Len(output.responses) = 1

(***************************************************************************)
(* Termination of the scan                                                 *)
(***************************************************************************)

\* C34: every iteration of the loop of XMLParser.parse either ends the scan
\* with a break or leaves a strictly shorter text to scan, and every scan
\* that has begun ends, with the nodes that the whole loop yields.
ScanTerminates ==
  /\ [][phase = "scanning" =>
          \/ output'.stopped
          \/ Len(output'.workingText) < Len(output.workingText)]_vars
  /\ (phase = "scanning") ~> (phase = "scanned")
  /\ [](phase = "scanned" => output.nodes = XMLParse(RenderItems(items)))

\* C34 witness: a scan has ended after three iterations, none of which was
\* a break.
ScannedInThreeIterations ==
  /\ phase = "scanned"
  /\ ~output.stopped
  /\ Len(items) = 3
  /\ Len(SelectSeq(output.nodes, LAMBDA n : n.type = "element")) = 3

(***************************************************************************)
(* Actions that are not enabled                                            *)
(***************************************************************************)

\* The call names a registered action that is not enabled and has
\* parameters its schema accepts.
CallsDisabledAction(call) ==
  LET idx == FindAction(call.content.name)
  IN  /\ idx # 0
      /\ ~registeredActions[idx].enabled
      /\ SchemaAccepts(registeredActions[idx].parameters, call.content.params)

\* C32: the prompt of the initial round offers the enabled actions only,
\* yet the dispatcher selects by name alone: every call of a batch that
\* names a registered action that is not enabled (and passes its schema)
\* has the handler run in that dispatch round, and the value a handler
\* returned is recorded in a Result memory of the call.
DisabledActionDispatched ==
  /\ \A i \in 1..Len(registeredActions) :
       registeredActions[i].enabled <=>
         \E k \in 1..Len(OfferedActions) : OfferedActions[k] = registeredActions[i]
  /\ \A t \in Turns :
       \A k \in 1..Len(DispatchRounds(t)) :
         \A id \in CallIds(DispatchRounds(t)[k]) :
           CallsDisabledAction(ActionMemory(memories, id)) => InvokedIn(t, id, k)
  /\ \A e \in 1..Len(invoked) :
       invoked[e].status = "stored" =>
         \E r \in ResultsOf(memories, invoked[e].callId) :
           memories.actions[r].content.result = invoked[e].value

\* C32 witness: the initial prompt of a turn did not offer an action, a
\* call of the round named it, its handler ran and the Result is stored.
DisabledActionResultStored ==
  \E e \in 1..Len(invoked) :
    /\ invoked[e].status = "stored"
    /\ ~registeredActions[invoked[e].action].enabled
    /\ ResultsOf(memories, invoked[e].callId) # {}
    /\ \E k \in 1..Len(prompts) :
         /\ prompts[k].turn = invoked[e].turn
         /\ prompts[k].kind = "chat"
         /\ \A i \in 1..Len(OfferedActions) :
              OfferedActions[i].name # registeredActions[invoked[e].action].name
         /\ \E c \in 1..Len(prompts[k].out.calls) :
              prompts[k].out.calls[c].name = registeredActions[invoked[e].action].name

(***************************************************************************)
(* Failures before and after the inbound message is recorded               *)
(***************************************************************************)

\* The inbound message of turn t has been recorded.
InboundRecorded(t) == local[t].message # NoMemory

\* C35: a failure raised while ensureConnection runs or while the inbound
\* message is being recorded makes handleRoomMessage reject; a failure
\* raised once the inbound message is recorded ends the turn with
\* handleRoomMessage returning normally; and the inbound message, once
\* recorded, stays in the store as it was recorded.
FailureReachesCallerOnlyBeforeRecording ==
  [][\A t \in Turns :
       /\ local'[t].error # local[t].error =>
            IF InboundRecorded(t) THEN pc'[t] = "done" ELSE pc'[t] = "rejected"
       /\ pc'[t] = "rejected" => ~InboundRecorded(t) /\ local'[t].error # "none"
       /\ InboundRecorded(t) =>
            /\ local'[t].message = local[t].message
            /\ \E k \in 1..Len(memories'.messages) :
                 memories'.messages[k] = local[t].message]_vars

\* C35 witness: client.sendMessage threw after the inbound message and the
\* response were recorded; the turn has returned and both are in the store.
SendFailureCaught ==
  \E t \in Turns :
    /\ pc[t] = "done"
    /\ local[t].error = "send"
    /\ InboundRecorded(t)
    /\ \E k \in 1..Len(memories.messages) : memories.messages[k] = local[t].message
    /\ sent = <<>>

(***************************************************************************)
(* The runtime object: events, memory managers, inventory                  *)
(***************************************************************************)

\* The listeners of the sequence of registrations, each once, in the order
\* of their first registration.
RECURSIVE InOrderOnce(_)
InOrderOnce(subs) ==
  IF subs = <<>> THEN <<>>
  ELSE LET k    == Len(subs)
           rest == InOrderOnce(SubSeq(subs, 1, k - 1))
       IN  IF \E j \in 1..Len(rest) : rest[j] = subs[k].listener
             THEN rest ELSE Append(rest, subs[k].listener)

\* The listeners that have a registration for the event whose unsubscribe
\* function has not been called, in registration order.
Subscribed(event) ==
  InOrderOnce(SelectSeq(subscriptions,
                        LAMBDA s : s.event = event /\ ~s.called))

\* C36: every emit of an event invokes, once each and in registration
\* order, exactly the listeners registered for that event with on whose
\* unsubscribe function has not been called; a listener registered twice is
\* invoked once, and an emit of an event without listeners invokes none.
ListenerInvokedUntilUnsubscribed ==
  [][Len(emitted') > Len(emitted) =>
       emitted'[Len(emitted')].invoked = Subscribed(emitted'[Len(emitted')].event)]_vars

\* C38: after construction, runtime.memories.<table> is the manager that
\* getMemoryManager returns for the table, for each of the three tables.
MemoriesAreRegisteredManagers ==
  phase = "constructed" =>
    \A t \in {"actions", "messages", "thoughts"} :
      memoryConfig[t] = getMemoryManager(t)

\* C39: after construction, runtime.inventory holds the providers of
\* options.inventoryProviders in the order given, and so does the inventory
\* field of a State composed for a message of any room.
InventoryAsGiven ==
  phase = "constructed" =>
    /\ inventory = options.inventoryProviders
    /\ \A r \in Rooms :
         composeState(db, memories, [id |-> 0, roomId |-> r]).inventory
           = options.inventoryProviders

(***************************************************************************)
(* Template rendering is a single pass                                     *)
(***************************************************************************)

\* The texts of the parts of a template one after the other, the text of a
\* {{key}} part being what the replacer returns for the key; nothing of it
\* is scanned again.
RECURSIVE PartByPart(_, _)
PartByPart(parts, data) ==
  IF parts = <<>> THEN <<>>
  ELSE (IF Head(parts).kind = "key"
          THEN Replacement(data, Head(parts).text)
          ELSE Head(parts).text)
       \o PartByPart(Tail(parts), data)

\* TRUE where the variable of a {{key}} part of the template is a text that
\* holds a placeholder of another variable.
HoldsPlaceholder(parts, data) ==
  \E k \in 1..Len(parts) :
    /\ parts[k].kind = "key"
    /\ parts[k].text \in DOMAIN data
    /\ data[parts[k].text] = StringValue(<<"{", "{", "n", "}", "}">>)
    /\ KeyCount \in DOMAIN data

\* C37: rendering substitutes in a single pass: the rendered text is the
\* template's parts in order with each {{key}} part replaced by the text of
\* its value, and a value that itself holds {{key}} text is inserted as it
\* is, never expanded with the value of that key.
RenderIsSinglePass ==
  phase = "rendered" => output = PartByPart(items.parts, items.data)

\* C37 witness: the template {{items}} was rendered with items: "{{n}}" and
\* n: 0, and the rendered text is {{n}}.
PlaceholderTextInserted ==
  /\ phase = "rendered"
  /\ items.parts = <<KeyPart(KeyItems)>>
  /\ HoldsPlaceholder(items.parts, items.data)
  /\ output = <<"{", "{", "n", "}", "}">>

====
